---- MODULE Spec2Model ----
(***************************************************************************)
(* A model of corset's normalisation pass (src/transformer/inverses.rs),   *)
(* of its JSON trace loader (src/import.rs), of the pure functions of      *)
(* src/compiler/common.rs, of the definitions pass                         *)
(* (src/compiler/definitions.rs), of a module view of the inspector        *)
(* (src/inspect/mod.rs), of the expression printer of the debugger         *)
(* (src/exporters/debugger.rs) and of the polling loops of src/main.rs.    *)
(*                                                                         *)
(* SpecNormalize: a constraint set is drawn from a bounded family of       *)
(* expressions and ConstraintSet::expand_normalizations is run on it       *)
(* repeatedly.                                                             *)
(***************************************************************************)
EXTENDS Integers, Sequences, FiniteSets, TLC

VARIABLES
    constraints,    \* ConstraintSet.constraints: a sequence of constraints
    columns,        \* ConstraintSet.columns: the set of registered columns
    computations,   \* ConstraintSet.computations: the set of computations
    status,         \* "ok" | "err" | "panic": how the last operation ended
    runs,           \* how many times expand_normalizations has run
    prev,           \* the constraint set as it was before the last run
    \* -- the trace loader (import.rs) --
    stack,          \* the JSON walk: the keys entered, each with its first_column
    values,         \* the values installed in the column store, by handle
    effective_len,  \* the effective length of each module, 0 - 1 when unset
    min_len,        \* ConstraintSet.columns.min_len, by module
    spilling,       \* the spilling of each module, 0 - 1 when there is none
    debug_enabled,  \* whether the logger evaluates debug! messages
    loads,          \* how many JSON arrays the walk has handled
    last,           \* what the last handled array was and how it ended
    first_len,      \* the length of the first column loaded in each module
    \* -- the pure functions of compiler/common.rs --
    input,          \* the function applied and its arguments
    output,         \* its result, <<>> before it is applied
    \* -- the definitions pass (compiler/definitions.rs) --
    scopes,         \* the scope tree, as the sequence of its scopes
    ctx,            \* the active scope of the walk, an index in scopes
    reduced,        \* the declaration reduced last and the scope it went to
    ndecls,         \* how many top-level declarations have been reduced
    \* -- a module view of the inspector (inspect/mod.rs) --
    shift,          \* ModuleView.shift: the current offset in the table view
    size,           \* ModuleView.size
    moves,          \* how many operations the view has been through
    \* -- the polling loops of main.rs --
    blocks,         \* the rows of the table `blocks`, by id: status and payload
    main_constraints,   \* `constraints` of main: the compiled constraint set
    local_constraints,  \* `local_constraints`: the clone made by an iteration
    tx,             \* the writes of the open transaction, applied at commit
    pc,             \* where the loop is: "loop" | "row" | "commit"
    cur_row,        \* `row`: the id of the row the query returned, 0 when none
    command,        \* "CheckLoop" | "ComputeLoop"
    remove          \* the flag --rm of the check loop

normVars == <<constraints, columns, computations, runs, prev>>

loadVars == <<stack, values, effective_len, min_len, spilling, debug_enabled,
              loads, last, first_len>>

pureVars == <<input, output>>

defVars == <<scopes, ctx, reduced, ndecls>>

viewVars == <<shift, size, moves>>

loopVars == <<blocks, main_constraints, local_constraints, tx, pc, cur_row, command, remove>>

vars == <<constraints, columns, computations, status, runs, prev, stack, values,
          effective_len, min_len, spilling, debug_enabled, loads, last, first_len,
          input, output, scopes, ctx, reduced, ndecls, shift, size, moves, blocks,
          main_constraints, local_constraints, tx, pc, cur_row, command, remove>>

\* How many times the pass is run on one constraint set.
MaxRuns == 3

(***************************************************************************)
(* Field values.  column::Value is an element of a prime field; the model  *)
(* takes a small prime for its characteristic.                             *)
(***************************************************************************)
FieldModulus == 7

RECURSIVE Pow(_, _)
Pow(x, n) == IF n = 0 THEN 1 ELSE (x * Pow(x, n - 1)) % FieldModulus

\* Value::inverse: the field inverse, with 0 mapped to 0.
Inverse(x) == Pow(x % FieldModulus, FieldModulus - 2)

(***************************************************************************)
(* Handles and IR nodes.  Every node carries its cached type `t`.          *)
(***************************************************************************)
Handle(module, name) == [module |-> module, name |-> name]

NoHandle == Handle("", "")

MkNode(e, t, v, h, kind, func, args) ==
    [e |-> e, t |-> t, v |-> v, h |-> h, kind |-> kind, func |-> func, args |-> args]

\* Node::from_value / a Const leaf: 0 and 1 are typed Boolean.
from_value(v) ==
    MkNode("Const", IF v \in {0, 1} THEN "Boolean" ELSE "Numeric", v, NoHandle, "", "", <<>>)

\* Node::column().handle(h).kind(k).t(t).build()
ColumnNode(h, kind, t) == MkNode("Column", t, 0, h, kind, "", <<>>)

\* The join of the type lattice Void < Boolean < Numeric.
TypeRank(t) == CASE t = "Void" -> 0 [] t = "Boolean" -> 1 [] OTHER -> 2

Join(a, b) == IF TypeRank(a) >= TypeRank(b) THEN a ELSE b

RECURSIVE JoinAll(_)
JoinAll(args) ==
    IF args = <<>> THEN "Void" ELSE Join(Head(args).t, JoinAll(Tail(args)))

\* The type an intrinsic gives its result.
Typing(func, args) ==
    IF func \in {"Inv", "Normalize"} THEN "Numeric" ELSE JoinAll(args)

\* Intrinsic::call: a Funcall node with its type computed from its arguments.
Call(func, args) == MkNode("Funcall", Typing(func, args), 0, NoHandle, "", func, args)

ListNode(args) == MkNode("List", JoinAll(args), 0, NoHandle, "", "", args)

\* Magma::invert: the type of an inverse column.
InvertType(t) == "Numeric"

(***************************************************************************)
(* Helpers of Node used by the pass.                                       *)
(***************************************************************************)
RECURSIVE SumSeq(_)
SumSeq(s) == IF s = <<>> THEN 0 ELSE Head(s) + SumSeq(Tail(s))

RECURSIVE ProdSeq(_)
ProdSeq(s) == IF s = <<>> THEN 1 ELSE Head(s) * ProdSeq(Tail(s))

\* Node::pure_eval: the value of an expression known at compile time.
RECURSIVE pure_eval(_)
pure_eval(n) ==
    CASE n.e = "Const" -> [ok |-> TRUE, v |-> n.v]
      [] n.e = "Funcall" /\ n.func \in {"Add", "Sub", "Mul", "Neg"} ->
            LET rs == [i \in DOMAIN n.args |-> pure_eval(n.args[i])]
                vs == [i \in DOMAIN n.args |-> rs[i].v]
            IN  IF \E i \in DOMAIN rs : ~rs[i].ok
                THEN [ok |-> FALSE, v |-> 0]
                ELSE [ok |-> TRUE,
                      v  |-> CASE n.func = "Add" -> SumSeq(vs)
                               [] n.func = "Mul" -> ProdSeq(vs)
                               [] n.func = "Neg" -> 0 - vs[1]
                               [] OTHER -> vs[1] - SumSeq(Tail(vs))]
      [] OTHER -> [ok |-> FALSE, v |-> 0]

\* Node::dependencies: the columns an expression reads.
RECURSIVE dependencies(_)
dependencies(n) ==
    CASE n.e = "Column" -> {n.h}
      [] n.e \in {"Funcall", "List"} ->
            UNION {dependencies(n.args[i]) : i \in DOMAIN n.args}
      [] OTHER -> {}

\* ColumnSet::module_for: the one module of a set of columns, if there is one.
module_for(rs) ==
    LET ms == {h.module : h \in rs}
    IN  IF Cardinality(ms) = 1
        THEN [some |-> TRUE, module |-> CHOOSE m \in ms : TRUE]
        ELSE [some |-> FALSE, module |-> ""]

FuncSymbol(func) ==
    CASE func = "Add" -> "+" [] func = "Sub" -> "-" [] func = "Mul" -> "*"
      [] func = "Neg" -> "neg" [] func = "Inv" -> "inv" [] func = "Normalize" -> "~"
      [] OTHER -> func

\* The printed form of a node, with `sep` between the items of a list.
RECURSIVE Display(_, _)
RECURSIVE DisplayArgs(_, _)
DisplayArgs(args, sep) ==
    IF args = <<>> THEN ""
    ELSE sep \o Display(Head(args), sep) \o DisplayArgs(Tail(args), sep)

Display(n, sep) ==
    CASE n.e = "Const" -> ToString(n.v)
      [] n.e = "Column" -> n.h.name
      [] n.e = "Funcall" -> "(" \o FuncSymbol(n.func) \o DisplayArgs(n.args, sep) \o ")"
      [] n.e = "List" -> "{" \o DisplayArgs(n.args, sep) \o "}"
      [] OTHER -> "nil"

\* transformer::expression_to_name: prefix, `_`, and the printed expression
\* with every space replaced by `_`.
expression_to_name(e, prefix) == prefix \o "_" \o Display(e, "_")

\* A variant of invert_expr that forgets the inversion.
invert_expr_identity(e) == e

\* invert_expr: Intrinsic::Inv.call(&[e])
invert_expr(e) == Call("Inv", <<e>>)

(***************************************************************************)
(* Node::do_normalize.  The result is the rewritten node, the (handle,     *)
(* expression) pairs pushed to new_cols in traversal order, and whether    *)
(* get_module panicked (module_for(..).unwrap() on None).                  *)
(***************************************************************************)
Done(n, cols) == [n |-> n, cols |-> cols, panic |-> FALSE]

Panicked(n, cols) == [n |-> n, cols |-> cols, panic |-> TRUE]

\* A variant of the rewriting without the is_binary shortcut: a boolean
\* argument gets an inverse column like any other.
rewrite_normalize_no_binary(self, arg, cols) ==
    LET module == module_for(dependencies(arg))
        inverted_handle == Handle(module.module, expression_to_name(arg, "INV"))
    IN  IF ~module.some
        THEN Panicked(self, cols)
        ELSE Done(Call("Mul", <<arg, ColumnNode(inverted_handle, "Computed",
                                                InvertType(self.t))>>),
                  Append(cols, [handle |-> inverted_handle, expr |-> arg]))

\* The rewriting of one Normalize node (lines 38-60) whose argument `arg` has
\* already been processed; `cols` are the new columns its argument pushed.
rewrite_normalize(self, arg, cols) ==
    IF arg.t = "Boolean"
    THEN Done(arg, cols)
    ELSE LET module == module_for(dependencies(arg))
             inverted_handle == Handle(module.module, expression_to_name(arg, "INV"))
         IN  IF ~module.some
             THEN Panicked(self, cols)
             ELSE Done(Call("Mul", <<arg, ColumnNode(inverted_handle, "Computed",
                                                     InvertType(self.t))>>),
                       Append(cols, [handle |-> inverted_handle, expr |-> arg]))

RECURSIVE do_normalize(_)
RECURSIVE do_normalize_all(_)
\* `for e in es.iter_mut() { e.do_normalize(get_module, new_cols) }`
do_normalize_all(es) ==
    IF es = <<>>
    THEN [ns |-> <<>>, cols |-> <<>>, panic |-> FALSE]
    ELSE LET hd == do_normalize(Head(es))
         IN  IF hd.panic
             THEN [ns |-> es, cols |-> hd.cols, panic |-> TRUE]
             ELSE LET tl == do_normalize_all(Tail(es))
                  IN  [ns |-> <<hd.n>> \o tl.ns, cols |-> hd.cols \o tl.cols,
                       panic |-> tl.panic]

\* A variant of do_normalize that rewrites a Normalize node without first
\* descending into its argument.
do_normalize_shallow(self) ==
    LET x == pure_eval(self)
    IN  IF x.ok
        THEN Done(from_value(Inverse(x.v)), <<>>)
        ELSE CASE self.e = "List" ->
                    LET r == do_normalize_all(self.args)
                    IN  [n |-> [self EXCEPT !.args = r.ns], cols |-> r.cols,
                         panic |-> r.panic]
               [] self.e = "Funcall" /\ self.func = "Normalize" ->
                    rewrite_normalize(self, self.args[1], <<>>)
               [] self.e = "Funcall" ->
                    LET r == do_normalize_all(self.args)
                    IN  IF r.panic
                        THEN Panicked(self, r.cols)
                        ELSE Done([self EXCEPT !.args = r.ns], r.cols)
               [] OTHER -> Done(self, <<>>)

\* A variant of do_normalize that does not descend into List nodes.
do_normalize_no_list(self) ==
    LET x == pure_eval(self)
    IN  IF x.ok
        THEN Done(from_value(Inverse(x.v)), <<>>)
        ELSE CASE self.e = "Funcall" ->
                    LET r == do_normalize_all(self.args)
                    IN  IF r.panic
                        THEN Panicked(self, r.cols)
                        ELSE IF self.func = "Normalize"
                             THEN rewrite_normalize(self, r.ns[1], r.cols)
                             ELSE Done([self EXCEPT !.args = r.ns], r.cols)
               [] OTHER -> Done(self, <<>>)

do_normalize(self) ==
    LET x == pure_eval(self)
    IN  IF x.ok
        THEN Done(from_value(Inverse(x.v)), <<>>)
        ELSE CASE self.e = "List" ->
                    LET r == do_normalize_all(self.args)
                    IN  [n |-> [self EXCEPT !.args = r.ns], cols |-> r.cols,
                         panic |-> r.panic]
               [] self.e = "Funcall" ->
                    LET r == do_normalize_all(self.args)
                    IN  IF r.panic
                        THEN Panicked(self, r.cols)
                        ELSE IF self.func = "Normalize"
                             THEN rewrite_normalize(self, r.ns[1], r.cols)
                             ELSE Done([self EXCEPT !.args = r.ns], r.cols)
               [] OTHER -> Done(self, <<>>)

(***************************************************************************)
(* Constraints, columns and computations of a constraint set.              *)
(* A constraint is [c, handle, expr, inverted]: `expr` is the expression   *)
(* of a Vanishes or InRange constraint and the reference of a              *)
(* Normalization, whose inverted column is `inverted`.                     *)
(***************************************************************************)
Vanishes(name, expr) ==
    [c |-> "Vanishes", handle |-> Handle("m1", name), expr |-> expr, inverted |-> NoHandle]

InRange(name, expr) ==
    [c |-> "InRange", handle |-> Handle("m1", name), expr |-> expr, inverted |-> NoHandle]

Normalization(handle, reference, inverted) ==
    [c |-> "Normalization", handle |-> handle, expr |-> reference, inverted |-> inverted]

\* Column::builder().handle(h).kind(k).build()
Column(h, kind) == [handle |-> h, kind |-> kind]

Composite(target, exp) == [c |-> "Composite", target |-> target, exp |-> exp]

\* A variant of the lookup that never finds the handle.
by_handle_always_err(cols, h) == TRUE

\* ColumnSet::by_handle(h).is_err()
by_handle_is_err(cols, h) == \A col \in cols : col.handle # h

\* The first loop of expand_normalizations: do_normalize on the expression
\* of every Vanishes constraint, in order, sharing new_cols.
RECURSIVE normalize_constraints(_)
normalize_constraints(cs) ==
    IF cs = <<>>
    THEN [cs |-> <<>>, cols |-> <<>>, panic |-> FALSE]
    ELSE LET c == Head(cs)
             hd == IF c.c = "Vanishes" THEN do_normalize(c.expr) ELSE Done(c.expr, <<>>)
         IN  IF hd.panic
             THEN [cs |-> cs, cols |-> hd.cols, panic |-> TRUE]
             ELSE LET tl == normalize_constraints(Tail(cs))
                  IN  [cs |-> <<[c EXCEPT !.expr = hd.n]>> \o tl.cs,
                       cols |-> hd.cols \o tl.cols, panic |-> tl.panic]

\* The second loop: for every new column whose handle is not yet known,
\* insert the column, its computation and its Normalization constraint.
RECURSIVE insert_new_cols(_, _)
insert_new_cols(cs, new_cols) ==
    IF new_cols = <<>>
    THEN cs
    ELSE LET inverted_handle == Head(new_cols).handle
             normalized_expr == Head(new_cols).expr
         IN  IF by_handle_is_err(cs.columns, inverted_handle)
             THEN insert_new_cols(
                    [constraints |-> Append(cs.constraints,
                        Normalization(Handle(inverted_handle.module,
                                             "NORM[" \o Display(normalized_expr, " ") \o "]"),
                                      normalized_expr, inverted_handle)),
                     columns |-> cs.columns \cup {Column(inverted_handle, "Computed")},
                     computations |-> cs.computations \cup
                        {Composite(inverted_handle, invert_expr(normalized_expr))}],
                    Tail(new_cols))
             ELSE insert_new_cols(cs, Tail(new_cols))

CS == [constraints |-> constraints, columns |-> columns, computations |-> computations]

\* ConstraintSet::expand_normalizations
expand_normalizations ==
    /\ status = "ok"
    /\ runs < MaxRuns
    /\ LET r == normalize_constraints(constraints)
       IN  IF r.panic
           THEN /\ status' = "panic"
                /\ UNCHANGED <<constraints, columns, computations>>
           ELSE LET cs == insert_new_cols([CS EXCEPT !.constraints = r.cs], r.cols)
                IN  /\ constraints' = cs.constraints
                    /\ columns' = cs.columns
                    /\ computations' = cs.computations
                    /\ status' = "ok"
    /\ prev' = CS
    /\ runs' = runs + 1
    /\ UNCHANGED loadVars
    /\ UNCHANGED pureVars
    /\ UNCHANGED defVars
    /\ UNCHANGED viewVars
    /\ UNCHANGED loopVars

(***************************************************************************)
(* The constraint sets the pass is run on: what the compiler hands over.   *)
(* Three columns in two modules, one constant, and expressions of depth    *)
(* up to three built from them; constant subtrees are already folded.      *)
(***************************************************************************)
X == ColumnNode(Handle("m1", "x"), "Atomic", "Numeric")

B == ColumnNode(Handle("m1", "b"), "Atomic", "Boolean")

Y == ColumnNode(Handle("m2", "y"), "Atomic", "Numeric")

One == from_value(1)

Two == from_value(2)

Normalize(e) == Call("Normalize", <<e>>)

Leaves == {X, B, Y, Two}

Columns0 == {Column(n.h, n.kind) : n \in {X, B, Y}}

Level1 ==
    Leaves
    \cup {Normalize(a) : a \in Leaves}
    \cup {Call(f, <<a, b>>) : f \in {"Add", "Mul"}, a \in {X, B}, b \in Leaves \cup {One}}

Level2 ==
    Level1
    \cup {Normalize(e) : e \in Level1}
    \cup {Call("Sub", <<Normalize(a), b>>) : a \in {X, B}, b \in {Normalize(X), Two}}
    \cup {ListNode(<<Normalize(a), b>>) : a \in {X, B}, b \in {Normalize(X), Two}}
    \cup {Normalize(Normalize(Normalize(X)))}

\* The variables of the module view while no inspector runs.
ViewIdle ==
    /\ shift = 0
    /\ size = 0
    /\ moves = 0

\* The variables of the polling loops while none runs.
LoopIdle ==
    /\ blocks = <<>>
    /\ main_constraints = <<>>
    /\ local_constraints = <<>>
    /\ tx = <<>>
    /\ pc = ""
    /\ cur_row = 0
    /\ command = ""
    /\ remove = FALSE

\* The variables of the definitions pass while it does not run.
DefinitionsIdle ==
    /\ scopes = <<>>
    /\ ctx = 0
    /\ reduced = <<>>
    /\ ndecls = 0

\* The variables of the pure functions while none is applied.
PureIdle ==
    /\ input = <<>>
    /\ output = <<>>

\* The loader's variables while no trace is being loaded.
LoaderIdle ==
    /\ stack = <<>>
    /\ values = <<>>
    /\ effective_len = <<>>
    /\ min_len = <<>>
    /\ spilling = <<>>
    /\ debug_enabled = FALSE
    /\ loads = 0
    /\ last = <<>>
    /\ first_len = <<>>

\* What a second constraint may be, when there is one.
Second ==
    {Vanishes("c2", e) : e \in {Normalize(X), Normalize(B), Normalize(Y),
                                 Call("Add", <<Normalize(X), Two>>)}}
    \cup {InRange("r", e) : e \in {X, Normalize(X)}}

InitNormalize ==
    /\ \E e \in Level2 :
          \/ constraints = <<Vanishes("c1", e)>>
          \/ \E c \in Second : constraints = <<Vanishes("c1", e), c>>
    /\ columns = Columns0
    /\ computations = {}
    /\ status = "ok"
    /\ runs = 0
    /\ prev = [constraints |-> constraints, columns |-> columns,
               computations |-> computations]
    /\ LoaderIdle
    /\ PureIdle
    /\ DefinitionsIdle
    /\ ViewIdle
    /\ LoopIdle

NextNormalize == expand_normalizations

SpecNormalize == InitNormalize /\ [][NextNormalize]_vars

(***************************************************************************)
(* The trace loader, import.rs.  SpecImport walks a JSON value as          *)
(* fill_traces does.  The stack holds one frame per call of fill_traces    *)
(* that has not returned, the call on the whole document first: the key    *)
(* its value was found under, the first_column of the loop turn that made  *)
(* the call, and how far the loop over the entries of its value has got.   *)
(* EnterKey is one turn of that loop, LoadArray the handling of an array   *)
(* value, LeaveValue the return from an object or from a value that is     *)
(* neither object nor array.                                               *)
(***************************************************************************)
\* How many keys may be nested, how many arrays one walk handles, and how
\* many entries an array holds.
MaxDepth == 3

MaxLoads == 2

MaxTraceLen == 2

Unset == 0 - 1

\* The constraint set the trace is loaded into: two modules; in m1, which
\* has a minimal length, the column a with a padding value and the register
\* b; in m2 the column a.
LoaderModules == {"m1", "m2"}

NoPadding == [some |-> FALSE, v |-> 0]

LoaderColumns ==
    {[handle |-> Handle("m1", "a"), t |-> "Numeric",
      padding_value |-> [some |-> TRUE, v |-> 5]],
     [handle |-> Handle("m2", "a"), t |-> "Numeric", padding_value |-> NoPadding]}

LoaderRegisters == {[handle |-> Handle("m1", "b"), magma |-> "Numeric"]}

\* The keys of the JSON objects, in the order `map.iter()` yields them: the
\* map of serde_json::Value::Object is sorted by key, and an object holds a
\* key at most once.
KeyOrder == <<"Trace", "a", "b", "m1", "m2">>

Keys == {KeyOrder[i] : i \in DOMAIN KeyOrder}

Rank(k) == CHOOSE i \in DOMAIN KeyOrder : KeyOrder[i] = k

\* The frame of a call of fill_traces on the value under key k, and of the
\* call on the whole document.
Frame(k) == [key |-> k, first_column |-> "", entered |-> 0]

Root == Frame("")

\* The entries of a JSON array: a number or a string of decimal digits, or
\* a value that is neither.
JNumber(digits) == [j |-> "Number", digits |-> digits]

JString(digits) == [j |-> "String", digits |-> digits]

JNull == [j |-> "Null", digits |-> <<>>]

Entries == {JNumber(<<1>>), JString(<<1, 2>>), JNull}

Arrays == UNION {[1..n -> Entries] : n \in 0..MaxTraceLen}

\* CValue::from(&str) on decimal digits.
RECURSIVE ParseDecimal(_)
ParseDecimal(digits) ==
    IF digits = <<>> THEN 0
    ELSE 10 * ParseDecimal(SubSeq(digits, 1, Len(digits) - 1)) + digits[Len(digits)]

\* Magma::validate: the values of the model fit every magma.
validate(t, v) == v

\* parse_column: a zero, then the parsed entries; an entry that is neither
\* a number nor a string fails the column.
parse_column(xs, h, t) ==
    IF \E i \in DOMAIN xs : xs[i].j \notin {"Number", "String"}
    THEN [ok |-> FALSE, r |-> <<>>]
    ELSE [ok |-> TRUE,
          r |-> <<0>> \o [i \in DOMAIN xs |-> validate(t, ParseDecimal(xs[i].digits))]]

\* A variant of the padding that appends the padding values.
pad_back(xs, module_min_len, padding) ==
    IF Len(xs) < module_min_len
    THEN xs \o [i \in 1..(module_min_len - Len(xs)) |-> padding]
    ELSE xs

\* xs.reverse(); xs.resize_with(module_min_len, padding); xs.reverse()
pad_front(xs, module_min_len, padding) ==
    IF Len(xs) < module_min_len
    THEN [i \in 1..(module_min_len - Len(xs)) |-> padding] \o xs
    ELSE xs

\* handle.pretty() / Display for Handle
Pretty(h) == h.module \o "." \o h.name

\* The path of fill_traces: the keys entered, "Trace" keys left out.
Path(st) == LET ks == [i \in DOMAIN st |-> st[i].key] IN SelectSeq(ks, LAMBDA k : k \notin {"Trace", Root.key})

\* The frame whose first_column is the initiator: the innermost "Trace" key;
\* 0 when there is none and the initiator is None.
InitiatorFrame(st) ==
    IF \E i \in DOMAIN st : st[i].key = "Trace"
    THEN CHOOSE i \in DOMAIN st : st[i].key = "Trace" /\ \A j \in DOMAIN st : st[j].key = "Trace" => j <= i
    ELSE 0

Pop(st) == SubSeq(st, 1, Len(st) - 1)

\* cs.columns.column(&handle) and cs.columns.register(&handle)
column_of(handle) == {c \in LoaderColumns : c.handle = handle}

register_of(handle) == {r \in LoaderRegisters : r.handle = handle}

\* cs.spilling_for_column(&handle)
spilling_for_column(handle) ==
    IF handle.module \in DOMAIN spilling THEN spilling[handle.module] ELSE Unset

\* cs.effective_len_or_set(&module, len): the stored length, len when none
\* is stored yet.
effective_len_or_set(module, len) ==
    IF effective_len[module] = Unset THEN len ELSE effective_len[module]

\* A variant of the length check that never finds a mismatch.
incorrect_length_never(xs, module_raw_size) == FALSE

\* `if xs.len() as isize != module_raw_size`
incorrect_length(xs, module_raw_size) == Len(xs) # module_raw_size

\* A variant of the two branches that sets the length of the module before
\* the column is parsed.
load_known_length_first(handle, xs, t, padding, module_min_len) ==
    LET module_spilling == spilling_for_column(handle)
        parsed == parse_column(xs, handle, t)
        padded == pad_front(parsed.r, module_min_len, padding)
        module_raw_size == effective_len_or_set(handle.module, Len(xs) + 1)
    IN  IF module_spilling = Unset
        THEN [outcome |-> "no_spilling", xs |-> <<>>, raw |-> Unset]
        ELSE IF ~parsed.ok
        THEN [outcome |-> "parse", xs |-> <<>>, raw |-> module_raw_size]
        ELSE IF incorrect_length(padded, module_raw_size)
        THEN [outcome |-> "mismatch", xs |-> padded, raw |-> module_raw_size]
        ELSE [outcome |-> "stored", xs |-> padded, raw |-> module_raw_size]

\* The two branches of the array case, for a column and for a register:
\* how far the load of `handle` gets and the values it would install.
load_known(handle, xs, t, padding, module_min_len) ==
    LET module_spilling == spilling_for_column(handle)
        parsed == parse_column(xs, handle, t)
        padded == pad_front(parsed.r, module_min_len, padding)
        module_raw_size == effective_len_or_set(handle.module, Len(padded))
    IN  IF module_spilling = Unset
        THEN [outcome |-> "no_spilling", xs |-> <<>>, raw |-> Unset]
        ELSE IF ~parsed.ok
        THEN [outcome |-> "parse", xs |-> <<>>, raw |-> Unset]
        ELSE IF incorrect_length(padded, module_raw_size)
        THEN [outcome |-> "mismatch", xs |-> padded, raw |-> module_raw_size]
        ELSE [outcome |-> "stored", xs |-> padded, raw |-> module_raw_size]

\* A variant of the last branch in which an unknown column fails the load.
unknown_column_fails(handle) == "err"

\* The last branch of the array case, `else { debug!("ignoring unknown column
\* {}", ..) }`: the handle is logged and the walk goes on.
unknown_column(handle) == "ok"

\* fill_traces, Value::Array(xs): the value of the innermost call is the
\* array xs.
LoadArray(xs) ==
    /\ status = "ok"
    /\ stack # <<>>
    /\ stack[Len(stack)].entered = 0
    /\ loads < MaxLoads
    /\ loads' = loads + 1
    /\ LET path == Path(stack)
           module == path[Len(path) - 1]
           handle == Handle(module, path[Len(path)])
           module_min_len == IF module \in DOMAIN min_len THEN min_len[module] ELSE 0
           initiator == InitiatorFrame(stack)
           cols == column_of(handle)
           regs == register_of(handle)
       IN  IF Len(path) < 2
           THEN /\ last' = [kind |-> "short", outcome |-> "skipped"]
                /\ stack' = Pop(stack)
                /\ UNCHANGED <<status, values, effective_len, first_len>>
           ELSE IF cols = {} /\ regs = {}
           THEN /\ last' = [kind |-> "unknown", outcome |-> "ignored"]
                /\ status' = unknown_column(handle)
                /\ stack' = IF status' = "ok" THEN Pop(stack) ELSE stack
                /\ UNCHANGED <<values, effective_len, first_len>>
           ELSE LET is_column == cols # {}
                    r == IF is_column
                         THEN LET c == CHOOSE c \in cols : TRUE
                              IN  load_known(handle, xs, c.t,
                                             IF c.padding_value.some
                                             THEN c.padding_value.v ELSE 0,
                                             module_min_len)
                         ELSE LET g == CHOOSE g \in regs : TRUE
                              IN  load_known(handle, xs, g.magma, 0, module_min_len)
                    named == IF is_column /\ initiator # 0
                                /\ stack[initiator].first_column = ""
                             THEN [stack EXCEPT ![initiator].first_column = Pretty(handle)]
                             ELSE stack
                IN  /\ last' = [kind |-> IF is_column THEN "column" ELSE "register",
                                outcome |-> r.outcome]
                    /\ stack' = IF r.outcome = "stored" THEN Pop(named) ELSE named
                    /\ effective_len' =
                          IF r.raw = Unset THEN effective_len
                          ELSE [effective_len EXCEPT ![module] = r.raw]
                    /\ first_len' =
                          IF r.raw # Unset /\ effective_len[module] = Unset
                          THEN [first_len EXCEPT ![module] = Len(r.xs)]
                          ELSE first_len
                    /\ values' =
                          IF r.outcome = "stored"
                          THEN [h \in DOMAIN values \cup {handle} |->
                                    IF h = handle THEN r.xs ELSE values[h]]
                          ELSE values
                    /\ status' =
                          CASE r.outcome = "stored" -> "ok"
                            [] r.outcome = "mismatch" /\ initiator = 0 -> "panic"
                            [] OTHER -> "err"
    /\ UNCHANGED <<min_len, spilling, debug_enabled>>
    /\ UNCHANGED normVars
    /\ UNCHANGED pureVars
    /\ UNCHANGED defVars
    /\ UNCHANGED viewVars
    /\ UNCHANGED loopVars

\* fill_traces, Value::Object: the loop of the innermost call reaches the
\* entry of key k and calls fill_traces on its value.
EnterKey(k) ==
    /\ status = "ok"
    /\ stack # <<>>
    /\ Len(stack) <= MaxDepth
    /\ Rank(k) > stack[Len(stack)].entered
    /\ IF k = "Trace" /\ debug_enabled /\ Path(stack) = <<>>
       THEN \* debug!("Importing {}", path[path.len() - 1]) on an empty path
            /\ status' = "panic"
            /\ UNCHANGED stack
       ELSE /\ stack' = Append([stack EXCEPT ![Len(stack)].entered = Rank(k)], Frame(k))
            /\ UNCHANGED status
    /\ UNCHANGED <<values, effective_len, min_len, spilling, debug_enabled, loads, last,
                   first_len>>
    /\ UNCHANGED normVars
    /\ UNCHANGED pureVars
    /\ UNCHANGED defVars
    /\ UNCHANGED viewVars
    /\ UNCHANGED loopVars

\* The return of the innermost call: its value is an object whose entries
\* are done, or a value that is neither object nor array.
LeaveValue ==
    /\ status = "ok"
    /\ stack # <<>>
    /\ stack' = Pop(stack)
    /\ UNCHANGED <<status, values, effective_len, min_len, spilling, debug_enabled, loads,
                   last, first_len>>
    /\ UNCHANGED normVars
    /\ UNCHANGED pureVars
    /\ UNCHANGED defVars
    /\ UNCHANGED viewVars
    /\ UNCHANGED loopVars

\* The normalisation pass's variables while a trace is loaded.
NormalizeIdle ==
    /\ constraints = <<>>
    /\ columns = {}
    /\ computations = {}
    /\ runs = 0
    /\ prev = <<>>

InitImport ==
    /\ stack = <<Root>>
    /\ values = <<>>
    /\ effective_len = [m \in LoaderModules |-> Unset]
    /\ first_len = [m \in LoaderModules |-> Unset]
    /\ min_len = [m \in {"m1"} |-> 2]
    /\ spilling \in {[m \in LoaderModules |-> 1], [m \in {"m1"} |-> 1]}
    /\ debug_enabled \in BOOLEAN
    /\ loads = 0
    /\ last = [kind |-> "none", outcome |-> "none"]
    /\ status = "ok"
    /\ NormalizeIdle
    /\ PureIdle
    /\ DefinitionsIdle
    /\ ViewIdle
    /\ LoopIdle

NextImport ==
    \/ \E k \in Keys : EnterKey(k)
    \/ \E xs \in Arrays : LoadArray(xs)
    \/ LeaveValue

SpecImport == InitImport /\ [][NextImport]_vars

(***************************************************************************)
(* Vocabulary of the properties of the normalisation pass.                 *)
(***************************************************************************)
\* The positions of the nodes of an expression, as argument indices from
\* the root, and the node at a position.
RECURSIVE Paths(_)
Paths(n) ==
    {<<>>} \cup UNION {{<<i>> \o p : p \in Paths(n.args[i])} : i \in DOMAIN n.args}

RECURSIVE At(_, _)
At(n, p) == IF p = <<>> THEN n ELSE At(n.args[Head(p)], Tail(p))

RECURSIVE ValidPath(_, _)
ValidPath(n, p) ==
    \/ p = <<>>
    \/ Head(p) \in DOMAIN n.args /\ ValidPath(n.args[Head(p)], Tail(p))

IsNormalize(n) == n.e = "Funcall" /\ n.func = "Normalize"

HasNormalize(n) == \E p \in Paths(n) : IsNormalize(At(n, p))

\* The positions (constraint index, path) of the Normalize nodes of the
\* Vanishes constraints of a constraint list.
NormalizeSites(cs) ==
    {s \in UNION {{<<i, p>> : p \in Paths(cs[i].expr)} : i \in DOMAIN cs} :
        /\ cs[s[1]].c = "Vanishes"
        /\ IsNormalize(At(cs[s[1]].expr, s[2]))}

\* The argument of the Normalize node at a site.
ArgAt(cs, s) == At(cs[s[1]].expr, s[2]).args[1]

\* A Normalize node that the pass replaces by its argument: the argument is
\* boolean, or is itself such a node.
RECURSIVE Collapses(_)
Collapses(n) ==
    /\ IsNormalize(n)
    /\ (n.args[1].t = "Boolean" \/ Collapses(n.args[1]))

\* Where the position p of the expression n lies once every collapsing
\* Normalize node above it has been replaced by its argument.
RECURSIVE PostPath(_, _)
PostPath(n, p) ==
    IF p = <<>> THEN <<>>
    ELSE IF Collapses(n) THEN PostPath(n.args[1], Tail(p))
    ELSE <<Head(p)>> \o PostPath(n.args[Head(p)], Tail(p))

\* The node the pass left at a site (Void when the position is gone).
After(s) ==
    LET p == PostPath(prev.constraints[s[1]].expr, s[2])
    IN  IF ValidPath(constraints[s[1]].expr, p)
        THEN At(constraints[s[1]].expr, p)
        ELSE MkNode("Void", "Void", 0, NoHandle, "", "", <<>>)

RanOk == runs >= 1 /\ status = "ok"

NewConstraints ==
    {constraints[i] : i \in (Len(prev.constraints) + 1)..Len(constraints)}

\* The inverse column the pass is to create for the expression e.
InverseColumnOf(e) ==
    ColumnNode(Handle(module_for(dependencies(e)).module, expression_to_name(e, "INV")),
               "Computed", "Numeric")

\* C1: running the pass a second time leaves the constraint set exactly as
\* the first run left it: no expression, column, computation or constraint
\* changes.
C1_SecondRunChangesNothing ==
    (runs >= 2 /\ status = "ok") => CS = prev

\* C2: a second run of the pass on a constraint set it has already processed
\* adds no column to the column store and no constraint to the constraint
\* list.
C2_SecondRunAddsNothing ==
    (runs >= 2 /\ status = "ok") =>
        /\ columns = prev.columns
        /\ Len(constraints) = Len(prev.constraints)

\* C2 witness: a second run has happened on a set in which the first run
\* created an inverse column.
C2_Witness ==
    /\ runs = 2
    /\ status = "ok"
    /\ \E i \in DOMAIN constraints : constraints[i].c = "Normalization"

\* C3: every Normalize(e) of a Vanishes constraint with e not boolean is
\* replaced by Mul(e, c), c the Computed column INV_<e> in the module of e's
\* dependencies; c is in the column store and a Normalization constraint
\* with reference e and inverted c is emitted.  Stated for the Normalize
\* nodes whose argument holds no further Normalize.
C3_NormalizeBecomesMulByInverse ==
    (runs = 1 /\ status = "ok") =>
        \A s \in NormalizeSites(prev.constraints) :
            LET e == ArgAt(prev.constraints, s)
                c == InverseColumnOf(e)
            IN  (e.t # "Boolean" /\ ~HasNormalize(e)) =>
                    /\ After(s) = Call("Mul", <<e, c>>)
                    /\ Column(c.h, "Computed") \in columns
                    /\ \E n \in NewConstraints :
                          /\ n.c = "Normalization"
                          /\ n.expr = e
                          /\ n.inverted = c.h

C5_NoNormalizeInAnyConstraint ==
    RanOk => \A i \in DOMAIN constraints : ~HasNormalize(constraints[i].expr)

\* C5 as amended: after a successful run no Normalize node remains, at any
\* depth, in the expression of a Vanishes constraint nor in the reference
\* of a Normalization constraint.
C5_NoNormalizeInVanishes ==
    RanOk =>
        \A i \in DOMAIN constraints :
            constraints[i].c \in {"Vanishes", "Normalization"} =>
                ~HasNormalize(constraints[i].expr)

\* C5 witness: the pass has run on a Normalize nested in the argument of
\* another Normalize, and on one inside a List.
C5_Witness ==
    /\ RanOk
    /\ \/ prev.constraints[1].expr = Normalize(Normalize(Normalize(X)))
       \/ prev.constraints[1].expr = ListNode(<<Normalize(X), Normalize(X)>>)

\* The value of an expression on one row: `row` gives each column its value
\* on that row.  Arithmetic is that of the field; Inv is Value::inverse.
RECURSIVE Eval(_, _)
Eval(n, row) ==
    CASE n.e = "Const" -> n.v % FieldModulus
      [] n.e = "Column" -> row[n.h]
      [] n.e = "Funcall" ->
            LET vs == [i \in DOMAIN n.args |-> Eval(n.args[i], row)]
            IN  CASE n.func = "Add" -> SumSeq(vs) % FieldModulus
                  [] n.func = "Mul" -> ProdSeq(vs) % FieldModulus
                  [] n.func = "Sub" -> (vs[1] - SumSeq(Tail(vs))) % FieldModulus
                  [] n.func = "Neg" -> (0 - vs[1]) % FieldModulus
                  [] n.func = "Inv" -> Inverse(vs[1])
                  [] n.func = "Normalize" -> IF vs[1] = 0 THEN 0 ELSE 1
                  [] OTHER -> 0
      [] OTHER -> 0

\* Every assignment of field values to the columns an expression reads.
Rows(n) == [dependencies(n) -> 0..(FieldModulus - 1)]

\* C6: for every Normalization constraint, the inverted column is a Computed
\* column of the store with exactly one computation, Composite of
\* Inv(reference), whose value on every row is the field inverse of the
\* reference where the reference is not zero, and zero where it is.
C6_InvertedIsInverseOfReference ==
    \A i \in DOMAIN constraints :
        LET n == constraints[i]
            ks == {k \in computations : k.target = n.inverted}
        IN  n.c = "Normalization" =>
                /\ Column(n.inverted, "Computed") \in columns
                /\ ks = {Composite(n.inverted, Call("Inv", <<n.expr>>))}
                /\ \A k \in ks : \A row \in Rows(n.expr) :
                      LET r == Eval(n.expr, row)
                          v == Eval(k.exp, row)
                      IN  /\ r # 0 => (r * v) % FieldModulus = 1
                          /\ r = 0 => v = 0

\* C6 witness: the pass has emitted a Normalization constraint whose
\* reference reads a column and a constant.
C6_Witness ==
    /\ RanOk
    /\ \E n \in NewConstraints :
          /\ n.c = "Normalization"
          /\ n.expr.e = "Funcall"
          /\ n.expr.func = "Add"

\* A Normalize node for which get_module finds no single module: its
\* argument holds no further Normalize, is not boolean, and reads columns of
\* several modules or no column at all.
NoModuleSites(cs) ==
    {s \in NormalizeSites(cs) :
        /\ ~HasNormalize(ArgAt(cs, s))
        /\ ArgAt(cs, s).t # "Boolean"
        /\ ~module_for(dependencies(ArgAt(cs, s))).some}

\* C7: when the dependencies of a Normalize argument span several modules,
\* or give no module, the pass returns an error to its caller.
C7_CrossModuleReturnsError ==
    (runs >= 1 /\ NoModuleSites(prev.constraints) # {}) => status = "err"

(***************************************************************************)
(* Properties of the trace loader.                                         *)
(***************************************************************************)
\* C8: after any sequence of column and register loads, every column or
\* register that holds values has the effective length of its module, and
\* that length is the length of the first column loaded into the module.
C8_ModuleLengthCoherence ==
    \A h \in DOMAIN values :
        /\ Len(values[h]) = effective_len[h.module]
        /\ effective_len[h.module] = first_len[h.module]

\* C8 witness: a column and a register of one module both hold values.
C8_Witness ==
    \E h1 \in DOMAIN values : \E h2 \in DOMAIN values :
        /\ h1 # h2
        /\ h1.module = h2.module
        /\ column_of(h1) # {}
        /\ register_of(h2) # {}

\* C9: with or without a "Trace" key above it, a column or register whose
\* length disagrees with the effective length of its module makes
\* fill_traces return an error value.
C9_LengthMismatchReturnsError ==
    last.outcome = "mismatch" => status = "err"

\* C10 as stated: once the walk of a trace holding a column that is neither
\* a column nor a register of the constraint set is over, the load has
\* failed.
C10_UnknownColumnFailsLoad ==
    (last.kind = "unknown" /\ stack = <<>>) => status = "err"

\* C10 as the code has it: an array whose handle is neither a column nor a
\* register of the constraint set is ignored; fill_traces returns no error
\* for it, stores nothing and sets no module length.
C10_UnknownColumnIsIgnored ==
    [][(loads' = loads + 1 /\ last'.kind = "unknown") =>
            /\ status' = "ok"
            /\ values' = values
            /\ effective_len' = effective_len]_vars

\* C10 witness: an unknown column has been ignored after a known column was
\* stored, and the walk is over without an error.
C10_Witness ==
    /\ last.kind = "unknown"
    /\ status = "ok"
    /\ stack = <<>>
    /\ DOMAIN values # {}

(***************************************************************************)
(* The pure functions of compiler/common.rs.  SpecCommon draws a function  *)
(* and its arguments, then applies it.                                     *)
(***************************************************************************)
\* The largest parameter of an Arity, the largest argument count, and the
\* longest module or column name.
MaxArity == 3

MaxArgs == 4

MaxNameLen == 2

\* Result<T>: Ok(v), Err(msg), and a panic of the call.
Ok(v) == [res |-> "Ok", v |-> v, kind |-> "", msg |-> ""]

Err(kind, msg) == [res |-> "Err", v |-> <<>>, kind |-> kind, msg |-> msg]

Panic == [res |-> "Panic", v |-> <<>>, kind |-> "", msg |-> ""]

\* enum Arity
AtLeast(x) == [a |-> "AtLeast", x |-> x, y |-> 0]

Monadic == [a |-> "Monadic", x |-> 0, y |-> 0]

Dyadic == [a |-> "Dyadic", x |-> 0, y |-> 0]

Exactly(x) == [a |-> "Exactly", x |-> x, y |-> 0]

Between(x, y) == [a |-> "Between", x |-> x, y |-> y]

\* Arity::make_error
arg_count(x) == ToString(x) \o " argument" \o (IF x > 1 THEN "s" ELSE "")

make_error(arity, l) ==
    CASE arity.a = "AtLeast" ->
            "expected at least " \o arg_count(arity.x) \o ", but received " \o ToString(l)
      [] arity.a = "Monadic" ->
            "expected " \o arg_count(1) \o ", but received " \o ToString(l)
      [] arity.a = "Dyadic" ->
            "expected " \o arg_count(2) \o ", but received " \o ToString(l)
      [] arity.a = "Exactly" ->
            "expected " \o arg_count(arity.x) \o ", but received " \o ToString(l)
      [] arity.a = "Between" ->
            "expected between " \o arg_count(arity.x) \o " and " \o arg_count(arity.y)
                \o ", but received " \o ToString(l)

\* A variant of Arity::validate whose Between leaves its upper end out.
arity_validate_open(arity, l) ==
    IF CASE arity.a = "AtLeast" -> l >= arity.x
         [] arity.a = "Monadic" -> l = 1
         [] arity.a = "Dyadic" -> l = 2
         [] arity.a = "Exactly" -> l = arity.x
         [] arity.a = "Between" -> l >= arity.x /\ l < arity.y
    THEN Ok(<<>>)
    ELSE Err("arity", make_error(arity, l))

\* Arity::validate
arity_validate(arity, l) ==
    IF CASE arity.a = "AtLeast" -> l >= arity.x
         [] arity.a = "Monadic" -> l = 1
         [] arity.a = "Dyadic" -> l = 2
         [] arity.a = "Exactly" -> l = arity.x
         [] arity.a = "Between" -> l >= arity.x /\ l <= arity.y
    THEN Ok(<<>>)
    ELSE Err("arity", make_error(arity, l))

\* impl FuncVerifier<AstNode> for Form: arity
form_arity(form) == Exactly(3)

\* impl FuncVerifier<AstNode> for Form: validate_types.  The three matches!
\* are joined by &&, so an argument is indexed only when those before it
\* matched; indexing past the end of args panics.
form_validate_types(form, args) ==
    IF Len(args) < 1 THEN Panic
    ELSE IF args[1] # "Symbol" THEN Err("types", "expects [SYMBOL VALUE]")
    ELSE IF Len(args) < 2 THEN Panic
    ELSE IF args[2] # "Range" THEN Err("types", "expects [SYMBOL VALUE]")
    ELSE IF Len(args) < 3 THEN Panic
    ELSE IF args[3] # "List" THEN Err("types", "expects [SYMBOL VALUE]")
    ELSE Ok(<<>>)

\* FuncVerifier::validate_arity
validate_arity(form, args) == arity_validate(form_arity(form), Len(args))

\* A variant of validate_args that checks the types before the arity.
validate_args_types_first(form, args) ==
    LET t == form_validate_types(form, args)
        a == validate_arity(form, args)
    IN  IF t.res # "Ok" THEN t
        ELSE IF a.res # "Ok" THEN a
        ELSE Ok(args)

\* FuncVerifier::validate_args:
\* validate_arity(&args).and_then(|_| validate_types(&args)).and(Ok(args))
validate_args(form, args) ==
    LET a == validate_arity(form, args)
    IN  IF a.res # "Ok" THEN a
        ELSE LET t == form_validate_types(form, args)
             IN  IF t.res # "Ok" THEN t ELSE Ok(args)

\* enum Type
Types == {"Void", "Boolean", "Numeric"}

\* impl Ord for Type: cmp
cmp(a, b) ==
    CASE a = "Numeric" /\ b = "Boolean" -> "Greater"
      [] a = "Boolean" /\ b = "Numeric" -> "Less"
      [] OTHER -> "Equal"

\* impl PartialOrd for Type: partial_cmp, always Some
partial_cmp(a, b) ==
    CASE a = "Numeric" /\ b = "Boolean" -> "Greater"
      [] a = "Boolean" /\ b = "Numeric" -> "Less"
      [] OTHER -> "Equal"

\* Ord::max, the method impl Ord for Type inherits: the first argument when
\* cmp finds it Greater, the second otherwise.
max(a, b) == IF cmp(a, b) = "Greater" THEN a ELSE b

\* Strings are sequences of characters here.  The characters
\* Handle::purify replaces, and some it does not.
Purified == {"(", ")", "{", "}", "[", "]", "/", ":", "%", "."}

Alphanumeric == {"a", "1"}

PlainChars == Alphanumeric \cup {"_"}

Chars == Purified \cup PlainChars \cup {"-"}

MODULE_SEPARATOR == <<"_", "_">>

ARRAY_SEPARATOR == "_"

\* Handle::purify
purify(str) == [i \in DOMAIN str |-> IF str[i] \in Purified THEN "_" ELSE str[i]]

\* Handle::mangle
mangle(h) ==
    purify(h.module)
        \o (IF h.module = <<>> THEN <<>> ELSE MODULE_SEPARATOR)
        \o purify(h.name)

\* Handle::mangle_no_module
mangle_no_module(h) == purify(h.name)

\* Handle::ith, on a handle whose name is a string.
ith(h, i) == Handle(h.module, h.name \o ARRAY_SEPARATOR \o ToString(i))

\* The arguments the functions are applied to.
Arities ==
    {Monadic, Dyadic}
        \cup {AtLeast(x) : x \in 0..MaxArity}
        \cup {Exactly(x) : x \in 0..MaxArity}
        \cup {Between(x, y) : x \in 0..MaxArity, y \in 0..MaxArity}

TokenClasses == {"Symbol", "Range", "List", "Value"}

Strings(alphabet, n) == UNION {[1..k -> alphabet] : k \in 0..n}

\* Handles over every character, with a short module, and pairs of handles
\* over the characters purify leaves alone.
AnyHandles ==
    {Handle(m, n) : m \in Strings({"a", "."}, 1), n \in Strings(Chars, MaxNameLen)}

PlainHandles ==
    {Handle(m, n) : m \in Strings({"a", "_"}, MaxNameLen),
                    n \in Strings({"a", "_"}, MaxNameLen)}

Input(f, x, y) == [f |-> f, x |-> x, y |-> y]

NoOutput == [done |-> FALSE, r |-> <<>>]

Output(r) == [done |-> TRUE, r |-> r]

InitCommon ==
    /\ \/ \E arity \in Arities : \E l \in 0..MaxArgs :
             input = Input("arity_validate", arity, l)
       \/ \E args \in Strings(TokenClasses, MaxArgs) :
             input = Input("validate_args", "For", args)
       \/ \E a \in Types : \E b \in Types : \E c \in Types :
             input = Input("cmp", <<a, b, c>>, <<>>)
       \/ \E a \in Types : \E b \in Types : \E c \in Types :
             input = Input("max", <<a, b, c>>, <<>>)
       \/ \E h \in AnyHandles : input = Input("mangle", h, h)
       \/ \E h1 \in PlainHandles : \E h2 \in PlainHandles :
             input = Input("mangle", h1, h2)
    /\ output = NoOutput
    /\ status = "ok"
    /\ NormalizeIdle
    /\ LoaderIdle
    /\ DefinitionsIdle
    /\ ViewIdle
    /\ LoopIdle

\* Arity::validate is applied to an argument count.
ArityValidate ==
    /\ input.f = "arity_validate"
    /\ ~output.done
    /\ output' = Output(arity_validate(input.x, input.y))
    /\ UNCHANGED <<input, status>>
    /\ UNCHANGED <<normVars, loadVars, defVars, viewVars, loopVars>>

\* validate_args is applied to the arguments of a form.
ValidateArgs ==
    /\ input.f = "validate_args"
    /\ ~output.done
    /\ output' = Output(validate_args(input.x, input.y))
    /\ status' = IF output'.r.res = "Panic" THEN "panic"
                 ELSE IF output'.r.res = "Err" THEN "err" ELSE "ok"
    /\ UNCHANGED input
    /\ UNCHANGED <<normVars, loadVars, defVars, viewVars, loopVars>>

\* Three types are compared with each other, by cmp and by partial_cmp.
CompareTypes ==
    /\ input.f = "cmp"
    /\ ~output.done
    /\ output' = Output([p \in {1, 2, 3} \X {1, 2, 3} |->
                            [cmp |-> cmp(input.x[p[1]], input.x[p[2]]),
                             partial_cmp |-> partial_cmp(input.x[p[1]], input.x[p[2]])]])
    /\ UNCHANGED <<input, status>>
    /\ UNCHANGED <<normVars, loadVars, defVars, viewVars, loopVars>>

\* The maximum of three types is taken, in both groupings and both orders.
MaxTypes ==
    /\ input.f = "max"
    /\ ~output.done
    /\ LET a == input.x[1]
           b == input.x[2]
           c == input.x[3]
       IN  output' = Output([ab |-> max(a, b), ba |-> max(b, a), aa |-> max(a, a),
                             ab_c |-> max(max(a, b), c), a_bc |-> max(a, max(b, c))])
    /\ UNCHANGED <<input, status>>
    /\ UNCHANGED <<normVars, loadVars, defVars, viewVars, loopVars>>

\* Two handles are mangled.
Mangle ==
    /\ input.f = "mangle"
    /\ ~output.done
    /\ output' = Output(<<mangle(input.x), mangle(input.y)>>)
    /\ UNCHANGED <<input, status>>
    /\ UNCHANGED <<normVars, loadVars, defVars, viewVars, loopVars>>

NextCommon ==
    \/ ArityValidate
    \/ ValidateArgs
    \/ CompareTypes
    \/ MaxTypes
    \/ Mangle

SpecCommon == InitCommon /\ [][NextCommon]_vars

(***************************************************************************)
(* Properties of the pure functions.                                       *)
(***************************************************************************)
\* The argument counts an Arity declares.
Declared(arity) ==
    CASE arity.a = "AtLeast" -> {l \in Nat : l >= arity.x}
      [] arity.a = "Monadic" -> {1}
      [] arity.a = "Dyadic" -> {2}
      [] arity.a = "Exactly" -> {arity.x}
      [] arity.a = "Between" -> arity.x..arity.y

\* C11: for every Arity and every argument count l, Arity::validate
\* succeeds exactly when l is in the declared set, and returns an error for
\* every other l.
C11_ArityValidation ==
    (input.f = "arity_validate" /\ output.done) =>
        /\ output.r.res \in {"Ok", "Err"}
        /\ output.r.res = "Ok" <=> input.y \in Declared(input.x)

\* C11 witness: a count at the upper end of a Between has been accepted, and
\* the count above it rejected.
C11_Witness ==
    /\ input.f = "arity_validate"
    /\ output.done
    /\ input.x.a = "Between"
    /\ input.x.x < input.x.y
    /\ \/ input.y = input.x.y /\ output.r.res = "Ok"
       \/ input.y = input.x.y + 1 /\ output.r.res = "Err"

\* C12: validate_args checks the arity before the types.  With a wrong
\* count it returns the arity error and validate_types is not evaluated, so
\* nothing panics; with three arguments of wrong classes it returns the
\* type error; with Symbol, Range, List it returns the arguments unchanged,
\* and only then.
C12_ArityBeforeTypes ==
    (input.f = "validate_args" /\ output.done) =>
        LET args == input.y
            r == output.r
        IN  /\ r.res # "Panic"
            /\ Len(args) # 3 => r.res = "Err" /\ r.kind = "arity"
            /\ (Len(args) = 3 /\ args # <<"Symbol", "Range", "List">>) =>
                    r.res = "Err" /\ r.kind = "types"
            /\ args = <<"Symbol", "Range", "List">> <=> r.res = "Ok"
            /\ r.res = "Ok" => r.v = args

\* C12 witness: the form was given too few arguments, of the right classes
\* as far as they go, and the arity error came back.
C12_Witness ==
    /\ input.f = "validate_args"
    /\ output.done
    /\ input.y = <<"Symbol", "Range">>
    /\ output.r.res = "Err"
    /\ output.r.kind = "arity"

\* C13: the comparison on types is the order Void < Boolean < Numeric: cmp
\* and partial_cmp answer as the positions in that chain compare, so the
\* order is reflexive, antisymmetric and transitive and two types are Equal
\* only when they are the same type.
C13_TypeOrderIsChain ==
    (input.f = "cmp" /\ output.done) =>
        LET rank(t) == CASE t = "Void" -> 0 [] t = "Boolean" -> 1 [] t = "Numeric" -> 2
            chain(a, b) == IF rank(a) < rank(b) THEN "Less"
                           ELSE IF rank(a) > rank(b) THEN "Greater" ELSE "Equal"
        IN  \A p \in DOMAIN output.r :
                /\ output.r[p].cmp = chain(input.x[p[1]], input.x[p[2]])
                /\ output.r[p].partial_cmp = output.r[p].cmp

\* C14: the join of two types, their maximum under the type ordering, is
\* commutative, associative and idempotent.
C14_JoinIsSemilattice ==
    (input.f = "max" /\ output.done) =>
        /\ output.r.ab = output.r.ba
        /\ output.r.ab_c = output.r.a_bc
        /\ output.r.aa = input.x[1]

\* C15: mangle returns the module and the name with every character that
\* is not alphanumeric replaced by an underscore, joined by two
\* underscores, so that the result holds alphanumerics and underscores only.
C15_MangleIsIdentifierSafe ==
    (input.f = "mangle" /\ output.done) =>
        LET safe(str) == [i \in DOMAIN str |->
                              IF str[i] \in Alphanumeric THEN str[i] ELSE "_"]
            m == output.r[1]
        IN  /\ m = safe(input.x.module) \o <<"_", "_">> \o safe(input.x.name)
            /\ \A i \in DOMAIN m : m[i] \in Alphanumeric \cup {"_"}

\* C16: two distinct handles whose module and name hold none of the
\* characters that mangling replaces have distinct mangled forms.
C16_MangleIsInjective ==
    (input.f = "mangle" /\ output.done) =>
        LET plain(str) == \A i \in DOMAIN str : str[i] \notin Purified
        IN  (/\ input.x # input.y
             /\ plain(input.x.module) /\ plain(input.x.name)
             /\ plain(input.y.module) /\ plain(input.y.name))
                => output.r[1] # output.r[2]

(***************************************************************************)
(* The definitions pass, compiler/definitions.rs.  SpecDefinitions reduces *)
(* top-level declarations one after the other, as pass does.  The scope    *)
(* tree is the sequence of its scopes, the root first; a scope names its   *)
(* parent by index.                                                        *)
(***************************************************************************)
\* How many top-level declarations a source holds, and how many columns or
\* aliases one declaration holds.
MaxDecls == 3

MaxCols == 2

NoPerspective == ""

RootModule == "<prelude>"

\* Handle::maybe_with_perspective and Handle::new
maybe_with_perspective(module, name, perspective) ==
    [module |-> module, name |-> name, perspective |-> perspective]

handle_new(module, name) == maybe_with_perspective(module, name, NoPerspective)

\* handle.ith(i): the name as Handle::ith formats it, module and perspective
\* kept.
handle_ith(h, i) == [h EXCEPT !.name = ith(Handle(h.module, h.name), i).name]

\* A scope: its module, its perspective, its parent, its tag, whether it is
\* public, and its symbols and aliases.
NewScope(module, perspective, parent, tag) ==
    [module |-> module, perspective |-> perspective, parent |-> parent, tag |-> tag,
     public |-> FALSE, symbols |-> {}, aliases |-> {}]

RootScope == NewScope(RootModule, NoPerspective, 0, "")

\* Node::column() and Node::array_column()
ColumnSymbol(handle, kind) ==
    [class |-> "Column", handle |-> handle, kind |-> kind, domain |-> <<>>]

ArrayColumnSymbol(handle, domain) ==
    [class |-> "ArrayColumn", handle |-> handle, kind |-> "Atomic", domain |-> domain]

\* The names a scope holds, in whichever namespace.
names_of(sc) == {e.name : e \in sc.symbols} \cup {a.from : a \in sc.aliases}

\* What a scope operation returns: whether it succeeded, and the tree.
Done2(ok, scs) == [ok |-> ok, scopes |-> scs]

\* Scope::insert_symbol and Scope::insert_used_symbol: Redefinition when the
\* scope holds the name already.
insert_symbol(scs, id, name, node) ==
    IF name \in names_of(scs[id]) THEN Done2(FALSE, scs)
    ELSE Done2(TRUE, [scs EXCEPT ![id].symbols =
                        @ \cup {[name |-> name, node |-> node, used |-> FALSE]}])

insert_used_symbol(scs, id, name, node) ==
    IF name \in names_of(scs[id]) THEN Done2(FALSE, scs)
    ELSE Done2(TRUE, [scs EXCEPT ![id].symbols =
                        @ \cup {[name |-> name, node |-> node, used |-> TRUE]}])

\* Scope::insert_alias
insert_alias(scs, id, from, to) ==
    IF from \in names_of(scs[id]) THEN Done2(FALSE, scs)
    ELSE Done2(TRUE, [scs EXCEPT ![id].aliases = @ \cup {[from |-> from, to |-> to]}])

\* Scope::resolve_symbol: the scope itself, its aliases and the public
\* scopes below it, then the same up the parent chain.  A name is looked
\* up in a scope once per resolution: seen holds the lookups under way.
RECURSIVE visible_in(_, _, _, _)
RECURSIVE lookup(_, _, _, _)
visible_in(scs, id, name, seen) ==
    /\ <<id, name>> \notin seen
    /\ \/ \E e \in scs[id].symbols : e.name = name
       \/ \E a \in scs[id].aliases :
             a.from = name /\ lookup(scs, id, a.to, seen \cup {<<id, name>>})
       \/ \E k \in DOMAIN scs :
             /\ scs[k].parent = id
             /\ scs[k].public
             /\ visible_in(scs, k, name, seen \cup {<<id, name>>})

lookup(scs, id, name, seen) ==
    \/ visible_in(scs, id, name, seen)
    \/ scs[id].parent # 0 /\ lookup(scs, scs[id].parent, name, seen)

resolve_symbol(scs, id, name) == lookup(scs, id, name, {})

\* Scope::switch_to_module: the child of the root that stands for the
\* module, created when there is none; and where it is in the tree.
module_scope(scs, name) ==
    {k \in DOMAIN scs : scs[k].parent = 1 /\ scs[k].module = name
                           /\ scs[k].perspective = NoPerspective /\ scs[k].tag = name}

switch_to_module(scs, name) ==
    IF module_scope(scs, name) # {}
    THEN [scopes |-> scs, id |-> CHOOSE k \in module_scope(scs, name) : TRUE]
    ELSE [scopes |-> Append(scs, NewScope(name, NoPerspective, 1, name)),
          id |-> Len(scs) + 1]

\* Scope::derive: a fresh child scope.
derive(scs, id, tag) ==
    [scopes |-> Append(scs, NewScope(scs[id].module, scs[id].perspective, id, tag)),
     id |-> Len(scs) + 1]

\* Scope::public and Scope::with_perspective
public(scs, id, flag) == [scs EXCEPT ![id].public = flag]

with_perspective(scs, id, name) == [scs EXCEPT ![id].perspective = name]

\* What reduce returns: "ok", "err" or "panic", and the tree it leaves.
Reduced(st, scs) == [status |-> st, scopes |-> scs]

\* Token::DefColumn: the kind of the declared column.
column_kind(kind) ==
    CASE kind = "Atomic" -> "Atomic"
      [] kind = "Phantom" -> "Phantom"
      [] kind = "Computed" -> "Phantom"

\* Token::DefArrayColumn, the loop over the domain: one used symbol per
\* index, under handle.ith(i.try_into().unwrap()); the conversion of a
\* negative index to usize fails and the unwrap panics.
RECURSIVE insert_siblings(_, _, _, _)
insert_siblings(scs, id, handle, indices) ==
    IF indices = <<>> THEN Reduced("ok", scs)
    ELSE IF Head(indices) < 0 THEN Reduced("panic", scs)
    ELSE LET ith_handle == handle_ith(handle, Head(indices))
             r == insert_used_symbol(scs, id, ith_handle.name,
                                     ColumnSymbol(ith_handle, "Atomic"))
         IN  IF ~r.ok THEN Reduced("err", r.scopes)
             ELSE insert_siblings(r.scopes, id, handle, Tail(indices))

\* reduce, Token::DefArrayColumn
reduce_array_column(scs, id, name, domain) ==
    LET handle == maybe_with_perspective(scs[id].module, name, scs[id].perspective)
        sibs == insert_siblings(scs, id, handle, domain)
    IN  IF sibs.status # "ok" THEN sibs
        ELSE LET r == insert_symbol(sibs.scopes, id, name,
                                    ArrayColumnSymbol(handle, domain))
             IN  Reduced(IF r.ok THEN "ok" ELSE "err", r.scopes)

\* reduce, Token::DefColumn
reduce_column(scs, id, name, kind) ==
    LET handle == maybe_with_perspective(scs[id].module, name, scs[id].perspective)
        r == insert_symbol(scs, id, name, ColumnSymbol(handle, column_kind(kind)))
    IN  Reduced(IF r.ok THEN "ok" ELSE "err", r.scopes)

\* One entry of a defcolumns or of a defperspective.
reduce_entry(scs, id, col) ==
    IF col.array THEN reduce_array_column(scs, id, col.name, col.domain)
    ELSE reduce_column(scs, id, col.name, col.kind)

\* columns.iter().fold(Ok(()), |ax, col| ax.and(reduce(col, ctx))): the
\* argument of `and` is evaluated whatever ax is, so every column is
\* reduced and the first error is the result; a panic ends the fold.
RECURSIVE fold_columns(_, _, _)
fold_columns(scs, id, cols) ==
    IF cols = <<>> THEN Reduced("ok", scs)
    ELSE LET r == reduce_entry(scs, id, Head(cols))
         IN  IF r.status = "panic" THEN r
             ELSE LET rest == fold_columns(r.scopes, id, Tail(cols))
                  IN  IF rest.status = "panic" THEN rest
                      ELSE Reduced(IF r.status = "err" THEN "err" ELSE rest.status,
                                   rest.scopes)

\* A variant of the alias arm that does not resolve the target.
reduce_alias_unresolved(scs, id, from, to) ==
    LET r == insert_alias(scs, id, from, to)
    IN  Reduced(IF r.ok THEN "ok" ELSE "err", r.scopes)

\* reduce, Token::DefAlias
reduce_alias(scs, id, from, to) ==
    IF ~resolve_symbol(scs, id, to) THEN Reduced("err", scs)
    ELSE LET r == insert_alias(scs, id, from, to)
         IN  Reduced(IF r.ok THEN "ok" ELSE "err", r.scopes)

\* reduce, Token::DefAliases: the same fold as for columns.
RECURSIVE fold_aliases(_, _, _)
fold_aliases(scs, id, aliases) ==
    IF aliases = <<>> THEN Reduced("ok", scs)
    ELSE LET r == reduce_alias(scs, id, Head(aliases).from, Head(aliases).to)
             rest == fold_aliases(r.scopes, id, Tail(aliases))
         IN  Reduced(IF r.status = "err" THEN "err" ELSE rest.status, rest.scopes)

\* reduce, Token::DefPermutation, the loop over the targets: the first
\* failing insertion is returned.
RECURSIVE insert_targets(_, _, _)
insert_targets(scs, id, tos) ==
    IF tos = <<>> THEN Reduced("ok", scs)
    ELSE LET r == insert_symbol(scs, id, Head(tos),
                                ColumnSymbol(handle_new(scs[id].module, Head(tos)),
                                             "Phantom"))
         IN  IF ~r.ok THEN Reduced("err", r.scopes)
             ELSE insert_targets(r.scopes, id, Tail(tos))

\* The declarations of a source.
ModuleNames == {"m1", "m2"}

PerspectiveNames == {"p"}

ColumnNames == {"x", "x_1"}

Domains == {<<1, 2>>, <<0 - 1, 1>>}

ScalarDecl(name) == [name |-> name, array |-> FALSE, domain |-> <<>>, kind |-> "Atomic"]

ArrayDecl(name, domain) == [name |-> name, array |-> TRUE, domain |-> domain, kind |-> "Atomic"]

ColumnDecls == {ScalarDecl(n) : n \in ColumnNames} \cup {ArrayDecl("x", d) : d \in Domains}

AliasDecls == {[from |-> f, to |-> t] : f \in {"z", "w"}, t \in {"x", "z"}}

Lists(S) == UNION {[1..k -> S] : k \in 1..MaxCols}

\* What the walk has just reduced.
Declaration(token, name, items, into) ==
    [token |-> token, name |-> name, items |-> items, into |-> into]

InitDefinitions ==
    /\ scopes = <<RootScope>>
    /\ ctx = 1
    /\ reduced = Declaration("none", "", <<>>, 0)
    /\ ndecls = 0
    /\ status = "ok"
    /\ NormalizeIdle
    /\ LoaderIdle
    /\ PureIdle
    /\ ViewIdle
    /\ LoopIdle

\* reduce, Token::DefModule
DefModule(name) ==
    /\ status = "ok"
    /\ ndecls < MaxDecls
    /\ LET r == switch_to_module(scopes, name)
       IN  /\ scopes' = public(r.scopes, r.id, TRUE)
           /\ ctx' = r.id
           /\ reduced' = Declaration("DefModule", name, <<>>, r.id)
    /\ ndecls' = ndecls + 1
    /\ UNCHANGED status
    /\ UNCHANGED <<normVars, loadVars, pureVars, viewVars, loopVars>>

\* reduce, Token::DefColumns
DefColumns(cols) ==
    /\ status = "ok"
    /\ ndecls < MaxDecls
    /\ LET r == fold_columns(scopes, ctx, cols)
       IN  /\ scopes' = r.scopes
           /\ status' = r.status
    /\ reduced' = Declaration("DefColumns", "", cols, ctx)
    /\ ndecls' = ndecls + 1
    /\ UNCHANGED ctx
    /\ UNCHANGED <<normVars, loadVars, pureVars, viewVars, loopVars>>

\* A variant of the perspective arm that goes on in the child scope.
DefPerspectiveEntered(name, cols) ==
    /\ status = "ok"
    /\ ndecls < MaxDecls
    /\ LET d == derive(scopes, ctx, "in-" \o name)
           new_ctx == d.id
           r == fold_columns(with_perspective(public(d.scopes, new_ctx, TRUE), new_ctx, name),
                             new_ctx, cols)
       IN  /\ scopes' = r.scopes
           /\ status' = r.status
           /\ reduced' = Declaration("DefPerspective", name, cols, new_ctx)
           /\ ctx' = new_ctx
    /\ ndecls' = ndecls + 1
    /\ UNCHANGED <<normVars, loadVars, pureVars, viewVars, loopVars>>

\* reduce, Token::DefPerspective: the columns go to new_ctx, a derived
\* scope; ctx is not assigned.
DefPerspective(name, cols) ==
    /\ status = "ok"
    /\ ndecls < MaxDecls
    /\ LET d == derive(scopes, ctx, "in-" \o name)
           new_ctx == d.id
           r == fold_columns(with_perspective(public(d.scopes, new_ctx, TRUE), new_ctx, name),
                             new_ctx, cols)
       IN  /\ scopes' = r.scopes
           /\ status' = r.status
           /\ reduced' = Declaration("DefPerspective", name, cols, new_ctx)
    /\ ndecls' = ndecls + 1
    /\ UNCHANGED ctx
    /\ UNCHANGED <<normVars, loadVars, pureVars, viewVars, loopVars>>

\* reduce, Token::DefInterleaving
DefInterleaving(target) ==
    /\ status = "ok"
    /\ ndecls < MaxDecls
    /\ LET handle == maybe_with_perspective(scopes[ctx].module, target,
                                            scopes[ctx].perspective)
           r == insert_symbol(scopes, ctx, target, ColumnSymbol(handle, "Phantom"))
       IN  /\ scopes' = r.scopes
           /\ status' = IF r.ok THEN "ok" ELSE "err"
    /\ reduced' = Declaration("DefInterleaving", target, <<>>, ctx)
    /\ ndecls' = ndecls + 1
    /\ UNCHANGED ctx
    /\ UNCHANGED <<normVars, loadVars, pureVars, viewVars, loopVars>>

\* reduce, Token::DefPermutation, with nfroms source columns
DefPermutation(nfroms, tos) ==
    /\ status = "ok"
    /\ ndecls < MaxDecls
    /\ LET r == IF Len(tos) # nfroms THEN Reduced("err", scopes)
                ELSE insert_targets(scopes, ctx, tos)
       IN  /\ scopes' = r.scopes
           /\ status' = r.status
    /\ reduced' = Declaration("DefPermutation", "", tos, ctx)
    /\ ndecls' = ndecls + 1
    /\ UNCHANGED ctx
    /\ UNCHANGED <<normVars, loadVars, pureVars, viewVars, loopVars>>

\* reduce, Token::DefAliases
DefAliases(aliases) ==
    /\ status = "ok"
    /\ ndecls < MaxDecls
    /\ LET r == fold_aliases(scopes, ctx, aliases)
       IN  /\ scopes' = r.scopes
           /\ status' = r.status
    /\ reduced' = Declaration("DefAliases", "", aliases, ctx)
    /\ ndecls' = ndecls + 1
    /\ UNCHANGED ctx
    /\ UNCHANGED <<normVars, loadVars, pureVars, viewVars, loopVars>>

\* pass: the loop over the expressions of the source
NextDefinitions ==
    \/ \E name \in ModuleNames : DefModule(name)
    \/ \E cols \in Lists(ColumnDecls) : DefColumns(cols)
    \/ \E name \in PerspectiveNames : \E cols \in Lists(ColumnDecls) :
          DefPerspective(name, cols)
    \/ \E target \in ColumnNames : DefInterleaving(target)
    \/ \E nfroms \in 1..MaxCols : \E tos \in Lists(ColumnNames) :
          DefPermutation(nfroms, tos)
    \/ \E aliases \in Lists(AliasDecls) : DefAliases(aliases)

SpecDefinitions == InitDefinitions /\ [][NextDefinitions]_vars

(***************************************************************************)
(* Properties of the definitions pass.                                     *)
(***************************************************************************)
\* The walk reduces one more top-level declaration in this step.
Reduces == ndecls' = ndecls + 1

\* The symbols of scope k before and after the step, and those the step
\* added.
SymbolsBefore(k) == IF k \in DOMAIN scopes THEN scopes[k].symbols ELSE {}

SymbolsAdded(k) == scopes'[k].symbols \ SymbolsBefore(k)

\* The indices a sibling column could be made for.
IndexPool == (0 - 2)..3

SiblingName(name, i) == name \o "_" \o ToString(i)

\* C17: a declaration of an array column `name` with domain D that is not
\* rejected adds to the scope it is reduced in one Atomic column per index
\* i of D, of name name_i and of handle (module, name_i, perspective) of
\* that scope, and one array entry `name` with the domain D; it adds no
\* sibling for an index outside D.
C17_ArrayColumnExpands ==
    [][(/\ Reduces
        /\ reduced'.token \in {"DefColumns", "DefPerspective"}
        /\ status' # "err") =>
            \A n \in DOMAIN reduced'.items :
                LET col == reduced'.items[n]
                    into == reduced'.into
                    sc == scopes'[into]
                    D == {col.domain[k] : k \in DOMAIN col.domain}
                IN  col.array =>
                        /\ \A i \in D :
                              {e \in SymbolsAdded(into) : e.name = SiblingName(col.name, i)}
                                = {[name |-> SiblingName(col.name, i),
                                    node |-> ColumnSymbol(
                                        maybe_with_perspective(sc.module,
                                            SiblingName(col.name, i), sc.perspective),
                                        "Atomic"),
                                    used |-> TRUE]}
                        /\ \E e \in SymbolsAdded(into) :
                              /\ e.name = col.name
                              /\ e.node = ArrayColumnSymbol(
                                    maybe_with_perspective(sc.module, col.name,
                                                           sc.perspective),
                                    col.domain)
                        /\ \A j \in IndexPool \ D :
                              (\A k \in DOMAIN reduced'.items :
                                  reduced'.items[k].name # SiblingName(col.name, j))
                                => ~\E e \in SymbolsAdded(into) :
                                      e.name = SiblingName(col.name, j)]_vars

\* C18: after any sequence of accepted declarations, no two column entries
\* of the scope tree carry the same handle.
C18_ColumnHandlesAreUnique ==
    status = "ok" =>
        \A k1 \in DOMAIN scopes : \A k2 \in DOMAIN scopes :
            \A e1 \in scopes[k1].symbols : \A e2 \in scopes[k2].symbols :
                (/\ e1.node.class = "Column"
                 /\ e2.node.class = "Column"
                 /\ e1.node.handle = e2.node.handle)
                    => (k1 = k2 /\ e1 = e2)

\* C19: an alias whose target does not resolve when the walk reaches it,
\* neither in the tree nor as an alias made just before in the same
\* declaration, fails the declaration and is not inserted (the same alias
\* written again further down the declaration is another alias); an alias
\* whose target resolves and whose name is free is inserted.
C19_AliasTargetMustResolve ==
    [][(Reduces /\ reduced'.token = "DefAliases") =>
            \A n \in DOMAIN reduced'.items :
                LET a == reduced'.items[n]
                    earlier == {reduced'.items[k].from : k \in 1..(n - 1)}
                    again == \E k \in (n + 1)..Len(reduced'.items) : reduced'.items[k] = a
                IN  /\ (~resolve_symbol(scopes, ctx, a.to) /\ a.to \notin earlier) =>
                            /\ status' = "err"
                            /\ ~again => a \notin scopes'[ctx].aliases
                    /\ (/\ resolve_symbol(scopes, ctx, a.to)
                         /\ a.from \notin names_of(scopes[ctx])
                         /\ a.from \notin earlier) =>
                            a \in scopes'[ctx].aliases]_vars

\* C19 witness: after other declarations, an alias to a name that does not
\* resolve has failed the walk and was not inserted.
C19_Witness ==
    /\ reduced.token = "DefAliases"
    /\ ndecls >= 2
    /\ status = "err"
    /\ \E n \in DOMAIN reduced.items :
          /\ ~resolve_symbol(scopes, ctx, reduced.items[n].to)
          /\ reduced.items[n] \notin scopes[ctx].aliases

\* C20: defmodule m makes the scope of module m, a child of the root
\* without perspective, the active scope; no other declaration changes the
\* active scope.  Columns, interleavings, permutations and aliases add
\* symbols to the active scope only, with its module and no perspective; a
\* defperspective adds symbols only to a new child of the active scope,
\* tagged with the perspective, and their handles carry the module and the
\* perspective.
C20_ActiveScope ==
    [][Reduces =>
        LET into == reduced'.into
            elsewhere == {k \in DOMAIN scopes' : k # into /\ SymbolsAdded(k) # {}}
        IN  /\ reduced'.token = "DefModule" =>
                    /\ ctx' = into
                    /\ scopes'[ctx'].module = reduced'.name
                    /\ scopes'[ctx'].perspective = NoPerspective
                    /\ scopes'[ctx'].parent = 1
            /\ reduced'.token # "DefModule" => ctx' = ctx
            /\ elsewhere = {}
            /\ reduced'.token \in {"DefColumns", "DefInterleaving", "DefPermutation",
                                    "DefAliases"} =>
                    /\ into = ctx
                    /\ \A e \in SymbolsAdded(into) :
                          /\ e.node.handle.module = scopes[ctx].module
                          /\ e.node.handle.perspective = NoPerspective
            /\ reduced'.token = "DefPerspective" =>
                    /\ into \notin DOMAIN scopes
                    /\ scopes'[into].parent = ctx
                    /\ scopes'[into].perspective = reduced'.name
                    /\ \A e \in SymbolsAdded(into) :
                          /\ e.node.handle.module = scopes[ctx].module
                          /\ e.node.handle.perspective = reduced'.name]_vars

\* C20 witness: after a defmodule and a defperspective with columns, a
\* column has been declared and sits in the module scope without
\* perspective.
C20_Witness ==
    /\ status = "ok"
    /\ ndecls = 3
    /\ ctx # 1
    /\ reduced.token = "DefColumns"
    /\ \E e \in scopes[ctx].symbols : e.node.handle.perspective = NoPerspective
    /\ \E k \in DOMAIN scopes :
          /\ scopes[k].parent = ctx
          /\ scopes[k].perspective \in PerspectiveNames
          /\ scopes[k].symbols # {}

\* The fold the claim C21 describes: the entries of a block are reduced up
\* to the first one that fails, and none after it.
RECURSIVE UntilFirstFailure(_, _, _, _)
UntilFirstFailure(token, scs, id, items) ==
    IF items = <<>> THEN Reduced("ok", scs)
    ELSE LET r == IF token = "DefAliases"
                  THEN reduce_alias(scs, id, Head(items).from, Head(items).to)
                  ELSE reduce_entry(scs, id, Head(items))
         IN  IF r.status # "ok" THEN r
             ELSE UntilFirstFailure(token, r.scopes, id, Tail(items))

\* The tree a block is reduced on: the tree before the step, with the
\* derived scope for a defperspective.
BlockStart ==
    IF reduced'.token = "DefPerspective"
    THEN with_perspective(public(derive(scopes, ctx, "in-" \o reduced'.name).scopes,
                                 reduced'.into, TRUE),
                          reduced'.into, reduced'.name)
    ELSE scopes

\* C21: when a declaration nested in a defcolumns, defaliases or
\* defperspective block fails, the pass returns that error and the scope
\* tree holds the mutations of the block's entries up to the failing one
\* only: no entry that follows it in the block has changed a scope.
C21_NothingAfterFirstFailure ==
    [][(/\ Reduces
        /\ reduced'.token \in {"DefColumns", "DefPerspective", "DefAliases"}
        /\ status' = "err") =>
            LET r == UntilFirstFailure(reduced'.token, BlockStart, reduced'.into,
                                       reduced'.items)
            IN  /\ r.status = "err"
                /\ scopes' = r.scopes]_vars

\* C22: the pass leaves unchanged the expression of every Vanishes
\* constraint that contains no Normalize: its constants keep their value
\* and the constraint has the same value on every row before and after.
C22_NormalizeFreeIsUntouched ==
    (runs = 1 /\ status = "ok") =>
        \A i \in DOMAIN prev.constraints :
            LET before == prev.constraints[i]
                after == constraints[i]
            IN  (before.c = "Vanishes" /\ ~HasNormalize(before.expr)) =>
                    /\ after.expr = before.expr
                    /\ \A row \in Rows(before.expr) :
                          Eval(after.expr, row) = Eval(before.expr, row)

\* The Normalization constraints, computations and columns of a handle.
NormalizationsOf(h) ==
    {i \in DOMAIN constraints :
        constraints[i].c = "Normalization" /\ constraints[i].inverted = h}

ComputationsOf(h) == {k \in computations : k.target = h}

ColumnsOf(h) == {col \in columns : col.handle = h}

\* The Normalize sites of the previous constraint list that the pass
\* rewrites into a product: their argument is not constant, and is neither
\* boolean nor a Normalize that the pass replaces by a boolean.
RewrittenSites ==
    {s \in NormalizeSites(prev.constraints) :
        /\ ~Collapses(At(prev.constraints[s[1]].expr, s[2]))
        /\ ~pure_eval(ArgAt(prev.constraints, s)).ok}

\* C23: when the same non-boolean expression is normalised at several
\* places, in one constraint or in several, every rewritten occurrence is a
\* product with one and the same inverse column, and that column has
\* exactly one entry in the column store, one Composite computation and one
\* Normalization constraint; in every state a handle of the store has been
\* inserted once only.
C23_OneInverseColumnPerExpression ==
    /\ \A i \in DOMAIN constraints :
          constraints[i].c = "Normalization" =>
              /\ Cardinality(NormalizationsOf(constraints[i].inverted)) = 1
              /\ Cardinality(ComputationsOf(constraints[i].inverted)) = 1
              /\ Cardinality(ColumnsOf(constraints[i].inverted)) = 1
    /\ (runs = 1 /\ status = "ok") =>
          \A s \in RewrittenSites :
              LET c == After(s).args[2]
              IN  /\ After(s).e = "Funcall"
                  /\ After(s).func = "Mul"
                  /\ c.e = "Column"
                  /\ Cardinality(NormalizationsOf(c.h)) = 1
                  /\ Cardinality(ComputationsOf(c.h)) = 1
                  /\ ColumnsOf(c.h) = {Column(c.h, "Computed")}
                  /\ \A s2 \in RewrittenSites :
                        ArgAt(prev.constraints, s2) = ArgAt(prev.constraints, s) =>
                            After(s2).args[2] = c

\* C23 witness: the pass has run on a set that normalises the column x in
\* two constraints.
C23_Witness ==
    /\ runs = 1
    /\ status = "ok"
    /\ \E s \in RewrittenSites : \E s2 \in RewrittenSites :
          /\ s # s2
          /\ s[1] # s2[1]
          /\ ArgAt(prev.constraints, s) = X
          /\ ArgAt(prev.constraints, s2) = X

\* The handle an array value is loaded under, the padding value of that
\* handle and the minimal length of its module.
LoadedHandle ==
    LET path == Path(stack) IN Handle(path[Len(path) - 1], path[Len(path)])

PaddingOf(h) ==
    IF \E c \in column_of(h) : c.padding_value.some
    THEN (CHOOSE c \in column_of(h) : TRUE).padding_value.v
    ELSE 0

MinLenOf(h) == IF h.module \in DOMAIN min_len THEN min_len[h.module] ELSE 0

C25_FailedLoadChangesNothing ==
    [][(loads' = loads + 1 /\ last'.outcome \in {"parse", "no_spilling", "mismatch"}) =>
            /\ status' \in {"err", "panic"}
            /\ values' = values
            /\ effective_len' = effective_len]_vars

\* C25 witness: a column has been stored and the next load has failed on a
\* length mismatch.
C25_Witness ==
    /\ last.outcome = "mismatch"
    /\ DOMAIN values # {}
    /\ \E m \in LoaderModules : effective_len[m] # Unset

(***************************************************************************)
(* SpecInspect: one ModuleView of the inspector (src/inspect/mod.rs), made *)
(* by from_cs and moved by goto, left, right, home and end.                *)
(***************************************************************************)
\* The longest column of a module, and how many operations a view goes
\* through.
MaxColumnLen == 6

MaxMoves == 3

\* The arguments of goto, left and right.
Offsets == (0 - 2)..(MaxColumnLen + 1)

imin(a, b) == IF a < b THEN a ELSE b

imax(a, b) == IF a < b THEN b ELSE a

\* ModuleView::from_cs: max_size is the length of the longest column of the
\* module, 0 when no column holds values.
from_cs(max_size) == [shift |-> 0, size |-> max_size - 1]

InitInspect ==
    /\ \E max_size \in 0..MaxColumnLen :
          /\ shift = from_cs(max_size).shift
          /\ size = from_cs(max_size).size
    /\ moves = 0
    /\ status = "ok"
    /\ NormalizeIdle
    /\ LoaderIdle
    /\ PureIdle
    /\ DefinitionsIdle
    /\ LoopIdle

\* What every operation of the view leaves alone.
ViewFrame ==
    /\ status = "ok"
    /\ moves < MaxMoves
    /\ moves' = moves + 1
    /\ UNCHANGED size
    /\ UNCHANGED <<normVars, loadVars, pureVars, defVars, loopVars>>

\* ModuleView::goto: `i.clamp(0, self.size)`; clamp panics when its lower
\* bound is above its upper bound.
goto(i) ==
    /\ ViewFrame
    /\ IF 0 > size
       THEN /\ status' = "panic"
            /\ UNCHANGED shift
       ELSE /\ shift' = imin(imax(i, 0), size)
            /\ UNCHANGED status

\* ModuleView::left: `self.shift -= self.shift.min(x)`
left(x) ==
    /\ ViewFrame
    /\ shift' = shift - imin(shift, x)
    /\ UNCHANGED status

\* ModuleView::right: `self.shift = (self.shift + x).min(self.size)`
right(x) ==
    /\ ViewFrame
    /\ shift' = imin(shift + x, size)
    /\ UNCHANGED status

\* ModuleView::home
home ==
    /\ ViewFrame
    /\ shift' = 0
    /\ UNCHANGED status

\* ModuleView::end
end ==
    /\ ViewFrame
    /\ shift' = size
    /\ UNCHANGED status

NextInspect ==
    \/ \E i \in Offsets : goto(i)
    \/ \E x \in Offsets : left(x)
    \/ \E x \in Offsets : right(x)
    \/ home
    \/ end

SpecInspect == InitInspect /\ [][NextInspect]_vars

\* C26: for every module view, the one of a module whose columns hold no
\* values included, and after any sequence of goto, left, right, home and
\* end, the offset of the view satisfies 0 <= shift <= size and no
\* operation has aborted.
C26_ShiftWithinView ==
    /\ status = "ok"
    /\ 0 <= shift
    /\ shift <= size

(***************************************************************************)
(* SpecDebugger: pretty_expr of src/exporters/debugger.rs is applied to an *)
(* expression drawn from a bounded family.  What it writes to the Tty is   *)
(* kept as a sequence of tokens; the indentation of the Tty is left out.   *)
(***************************************************************************)
Tok(s) == [k |-> "sym", s |-> s, h |-> NoHandle, v |-> 0]

ColTok(h) == [k |-> "col", s |-> "", h |-> h, v |-> 0]

ConstTok(v) == [k |-> "const", s |-> "", h |-> NoHandle, v |-> v]

\* Option<Intrinsic>::None
NoPrev == "None"

\* priority: the Ordering of two intrinsics, "unimplemented" for the pairs
\* of the last arm.
priority(a, b) ==
    CASE a = "Add" /\ b = "Add" -> "Equal"
      [] a = "Add" /\ b = "Sub" -> "Less"
      [] a = "Add" /\ b = "Mul" -> "Less"
      [] a = "Sub" /\ b = "Mul" -> "Less"
      [] a = "Sub" /\ b = "Add" -> "Equal"
      [] a = "Mul" /\ b = "Add" -> "Greater"
      [] a = "Mul" /\ b = "Sub" -> "Greater"
      [] a = "Mul" /\ b = "Mul" -> "Equal"
      [] a = "Sub" /\ b = "Sub" -> "Equal"
      [] OTHER -> "unimplemented"

\* What a call has written, or that it has panicked.
Written(ts) == [panic |-> FALSE, out |-> ts]

Aborted == [panic |-> TRUE, out |-> <<>>]

\* One piece of output after another: the second is not reached when the
\* first has panicked.
Then(a, b) == IF a.panic THEN a ELSE [panic |-> b.panic, out |-> a.out \o b.out]

\* `prev.map(|p| priority(*f, p)).unwrap_or(Ordering::Equal)`
priority_or_equal(f, enclosing) == IF enclosing = NoPrev THEN "Equal" ELSE priority(f, enclosing)

\* pretty_expr(cs, n, prev, tty): `enclosing` is its argument prev.
RECURSIVE pretty_expr(_, _)
RECURSIVE pretty_args(_, _)
RECURSIVE pretty_items(_)
\* `while let Some(a) = args.next() { pretty_expr(cs, a, Some(*f), tty); .. }`
pretty_args(args, f) ==
    IF args = <<>> THEN Written(<<>>)
    ELSE Then(pretty_expr(Head(args), f),
              IF Tail(args) = <<>> THEN Written(<<>>)
              ELSE Then(Written(<<Tok(FuncSymbol(f))>>), pretty_args(Tail(args), f)))

\* The items of a list, one per line.
pretty_items(xs) ==
    IF xs = <<>> THEN Written(<<>>)
    ELSE Then(pretty_expr(Head(xs), NoPrev),
              IF Tail(xs) = <<>> THEN Written(<<>>)
              ELSE Then(Written(<<Tok("cr")>>), pretty_items(Tail(xs))))

\* The arms IfZero and IfNotZero.
pretty_if(keyword, args, enclosing) ==
    Then(Written(<<Tok(keyword)>>),
    Then(pretty_expr(args[1], "Mul"),
    Then(Written(<<Tok("cr")>>),
    Then(pretty_expr(args[2], NoPrev),
    Then(IF Len(args) >= 3
         THEN Then(Written(<<Tok("cr"), Tok("else"), Tok("cr")>>),
                   pretty_expr(args[3], enclosing))
         ELSE Written(<<>>),
         Written(<<Tok("cr"), Tok("endif")>>))))))

pretty_expr(n, enclosing) ==
    CASE n.e = "Funcall" /\ n.func \in {"Add", "Sub", "Mul"} ->
            LET p == priority_or_equal(n.func, enclosing)
                paren(s) == Written(IF p = "Less" THEN <<Tok(s)>> ELSE <<>>)
            IN  IF p = "unimplemented"
                THEN Aborted
                ELSE Then(paren("("), Then(pretty_args(n.args, n.func), paren(")")))
      [] n.e = "Funcall" /\ n.func = "Exp" ->
            Then(pretty_expr(n.args[1], "Exp"),
            Then(Written(<<Tok("^")>>), pretty_expr(n.args[2], "Exp")))
      [] n.e = "Funcall" /\ n.func = "Shift" ->
            Then(pretty_expr(n.args[1], NoPrev),
            Then(Written(<<Tok("[")>>),
            Then(pretty_expr(n.args[2], NoPrev), Written(<<Tok("]")>>))))
      [] n.e = "Funcall" /\ n.func = "Neg" ->
            Then(Written(<<Tok("-")>>), pretty_expr(n.args[1], enclosing))
      [] n.e = "Funcall" /\ n.func = "Inv" ->
            Then(Written(<<Tok("INV")>>), pretty_expr(n.args[1], enclosing))
      [] n.e = "Funcall" /\ n.func = "Eq" ->
            Then(pretty_expr(n.args[1], NoPrev),
            Then(Written(<<Tok("==")>>), pretty_expr(n.args[2], NoPrev)))
      [] n.e = "Funcall" /\ n.func = "IfZero" -> pretty_if("ifzero", n.args, enclosing)
      [] n.e = "Funcall" /\ n.func = "IfNotZero" -> pretty_if("ifnotzero", n.args, enclosing)
      [] n.e = "Const" -> Written(<<ConstTok(n.v)>>)
      [] n.e = "Column" -> Written(<<ColTok(n.h)>>)
      [] n.e = "List" ->
            Then(Written(<<Tok("{"), Tok("cr")>>),
            Then(pretty_items(n.args), Written(<<Tok("cr"), Tok("}")>>)))
      [] OTHER -> Aborted  \* Not, Nth, ArrayColumn, Void: unreachable!; Begin: todo!

\* The expressions pretty_expr is applied to: the arithmetic ones, two
\* operators deep, and the other intrinsics over them.
Atoms == {X, Y, Two}

Arithmetic1 ==
    Atoms
    \cup {Call(f, <<a, b>>) : f \in {"Add", "Sub", "Mul"}, a \in Atoms, b \in Atoms}
    \cup {Call("Neg", <<a>>) : a \in Atoms}

Arithmetic2 ==
    Arithmetic1
    \cup {Call(f, <<X, b>>) : f \in {"Add", "Sub", "Mul"}, b \in Arithmetic1}
    \cup {Call(f, <<a, Y>>) : f \in {"Add", "Sub", "Mul"}, a \in Arithmetic1}
    \cup {Call("Neg", <<a>>) : a \in Arithmetic1}
    \cup {Call(f, <<X, Y, Two>>) : f \in {"Add", "Sub", "Mul"}}

Operands == {X, Two, Call("Add", <<X, Y>>), Call("Mul", <<X, Y>>), Call("Neg", <<X>>)}

Rendered ==
    Arithmetic2
    \cup {Call("Exp", <<a, Two>>) : a \in Operands}
    \cup {Call("Shift", <<a, One>>) : a \in Operands}
    \cup {Call("Inv", <<a>>) : a \in Operands}
    \cup {Call("Eq", <<a, b>>) : a \in Operands, b \in Operands}
    \cup {Call(f, <<a, b>>) : f \in {"IfZero", "IfNotZero"}, a \in Operands, b \in Operands}
    \cup {Call(f, <<a, X, b>>) : f \in {"IfZero", "IfNotZero"}, a \in Operands, b \in Operands}
    \cup {ListNode(<<a, b>>) : a \in Operands, b \in Operands}
    \cup {Call("Mul", <<X, Call("Exp", <<a, Two>>)>>) : a \in Operands}

InitDebugger ==
    /\ \E n \in Rendered : input = Input("pretty_expr", n, NoPrev)
    /\ output = NoOutput
    /\ status = "ok"
    /\ NormalizeIdle
    /\ LoaderIdle
    /\ DefinitionsIdle
    /\ ViewIdle
    /\ LoopIdle

\* render_constraints: `pretty_expr(cs, expr, None, &mut tty)`
PrettyExpr ==
    /\ input.f = "pretty_expr"
    /\ ~output.done
    /\ output' = Output(pretty_expr(input.x, input.y))
    /\ status' = IF output'.r.panic THEN "panic" ELSE "ok"
    /\ UNCHANGED input
    /\ UNCHANGED <<normVars, loadVars, defVars, viewVars, loopVars>>

NextDebugger == PrettyExpr

SpecDebugger == InitDebugger /\ [][NextDebugger]_vars

(***************************************************************************)
(* Reading infix text back: the usual grammar, `*` binding tighter than    *)
(* `+` and `-`, the binary operators associating to the left and the unary *)
(* minus binding tightest.  The text is evaluated on a row as it is read.  *)
(***************************************************************************)
Read(v, rest) == [ok |-> TRUE, v |-> v % FieldModulus, rest |-> rest]

Unreadable == [ok |-> FALSE, v |-> 0, rest |-> <<>>]

IsSym(ts, s) == ts # <<>> /\ Head(ts).k = "sym" /\ Head(ts).s = s

RECURSIVE ReadSum(_, _)
RECURSIVE ReadSumRest(_, _)
RECURSIVE ReadProduct(_, _)
RECURSIVE ReadProductRest(_, _)
RECURSIVE ReadFactor(_, _)
ReadFactor(ts, r) ==
    IF ts = <<>> THEN Unreadable
    ELSE IF IsSym(ts, "-")
    THEN LET a == ReadFactor(Tail(ts), r)
         IN  IF a.ok THEN Read(0 - a.v, a.rest) ELSE Unreadable
    ELSE IF IsSym(ts, "(")
    THEN LET a == ReadSum(Tail(ts), r)
         IN  IF a.ok /\ IsSym(a.rest, ")") THEN Read(a.v, Tail(a.rest)) ELSE Unreadable
    ELSE IF Head(ts).k = "col" THEN Read(r[Head(ts).h], Tail(ts))
    ELSE IF Head(ts).k = "const" THEN Read(Head(ts).v, Tail(ts))
    ELSE Unreadable

ReadProductRest(acc, r) ==
    IF ~acc.ok \/ ~IsSym(acc.rest, "*") THEN acc
    ELSE LET a == ReadFactor(Tail(acc.rest), r)
         IN  IF a.ok THEN ReadProductRest(Read(acc.v * a.v, a.rest), r) ELSE Unreadable

ReadProduct(ts, r) == ReadProductRest(ReadFactor(ts, r), r)

ReadSumRest(acc, r) ==
    IF ~acc.ok THEN acc
    ELSE IF IsSym(acc.rest, "+")
    THEN LET a == ReadProduct(Tail(acc.rest), r)
         IN  IF a.ok THEN ReadSumRest(Read(acc.v + a.v, a.rest), r) ELSE Unreadable
    ELSE IF IsSym(acc.rest, "-")
    THEN LET a == ReadProduct(Tail(acc.rest), r)
         IN  IF a.ok THEN ReadSumRest(Read(acc.v - a.v, a.rest), r) ELSE Unreadable
    ELSE acc

ReadSum(ts, r) == ReadSumRest(ReadProduct(ts, r), r)

\* An expression built from Add, Sub, Mul and Neg over columns and
\* constants.
RECURSIVE IsArithmetic(_)
IsArithmetic(n) ==
    \/ n.e \in {"Const", "Column"}
    \/ /\ n.e = "Funcall"
       /\ n.func \in {"Add", "Sub", "Mul", "Neg"}
       /\ \A i \in DOMAIN n.args : IsArithmetic(n.args[i])

\* C27: the infix text pretty_expr writes for an expression built from Add,
\* Sub, Mul and Neg over columns and constants reads back, with the usual
\* precedence and associativity, as an expression that has the value of
\* the tree on every row.
C27_InfixDenotesTree ==
    (output.done /\ input.f = "pretty_expr" /\ IsArithmetic(input.x)) =>
        /\ ~output.r.panic
        /\ \A r \in Rows(input.x) :
              LET read == ReadSum(output.r.out, r)
              IN  /\ read.ok
                  /\ read.rest = <<>>
                  /\ read.v = Eval(input.x, r)

\* C28: rendering an expression that uses only Add, Sub, Mul, Exp, Shift,
\* Neg, Inv, Eq, IfZero, IfNotZero, constants, columns and lists always
\* completes: the unimplemented case of the priority table is not reached.
C28_RenderingCompletes ==
    (output.done /\ input.f = "pretty_expr") => ~output.r.panic

(***************************************************************************)
(* SpecLoop: the polling loops of src/main.rs (Commands::CheckLoop and     *)
(* Commands::ComputeLoop) over the table `blocks`.  No other client writes *)
(* to the table.  A constraint set is kept as the effective length its     *)
(* module has taken and the trace whose values it holds; a payload as the  *)
(* length of its columns, whether it satisfies the constraints, and        *)
(* whether it holds the computed columns.                                  *)
(***************************************************************************)
\* How many rows the table holds.
MaxBlocks == 2

BlockIds == 1..MaxBlocks

TraceLens == {1, 2}

Payloads == [len : TraceLens, valid : BOOLEAN, computed : {FALSE}]

NoTrace == [len |-> 0, valid |-> FALSE, computed |-> FALSE]

\* The constraint set as the compiler leaves it: no module has a length and
\* no column a value.
Compiled == [effective_len |-> Unset, values |-> NoTrace]

\* compute::compute(&v, &mut cs, _): the trace is loaded by fill_traces, in
\* which the first column sets the length of its module and a column of
\* another length fails the load; then the computed columns are filled.
compute(v, cs) ==
    IF cs.effective_len # Unset /\ cs.effective_len # v.len
    THEN [ok |-> FALSE, cs |-> cs]
    ELSE [ok |-> TRUE, cs |-> [effective_len |-> v.len, values |-> v]]

\* check::check(&cs, ..): whether the loaded trace satisfies the constraints.
check(cs) == cs.values.valid

\* The statements of the loops: the number of parameters the text refers to
\* (its highest $n) and the writes of the statement.
UpdateToProver(id, payload) ==
    [params |-> 2, given |-> 2, id |-> id, status |-> "to_prover", payload |-> payload]

Delete(id) ==
    [params |-> 1, given |-> 1, id |-> id, status |-> "deleted", payload |-> NoTrace]

\* "UPDATE blocks SET status='failed' WHERE id=$2" with `&[&id]`
UpdateFailed(id) ==
    [params |-> 2, given |-> 1, id |-> id, status |-> "failed", payload |-> NoTrace]

\* Transaction::execute: a statement is run when it is given as many
\* parameters as its text refers to, and fails otherwise.
execute_ok(stmt) == stmt.params = stmt.given

\* Transaction::commit: the writes of the transaction reach the table.
RECURSIVE apply(_, _)
apply(writes, table) ==
    IF writes = <<>> THEN table
    ELSE LET w == Head(writes)
             b == table[w.id]
         IN  apply(Tail(writes),
                   [table EXCEPT ![w.id] =
                       [status |-> w.status,
                        payload |-> IF w.status = "to_prover" THEN w.payload
                                    ELSE IF w.status = "deleted" THEN NoTrace
                                    ELSE b.payload]])

InitLoop ==
    /\ blocks \in [BlockIds -> [status : {"to_corset"}, payload : Payloads]]
    /\ command \in {"CheckLoop", "ComputeLoop"}
    /\ remove \in BOOLEAN
    /\ command = "ComputeLoop" => ~remove
    /\ main_constraints = Compiled
    /\ local_constraints = Compiled
    /\ tx = <<>>
    /\ pc = "loop"
    /\ cur_row = 0
    /\ status = "ok"
    /\ NormalizeIdle
    /\ LoaderIdle
    /\ PureIdle
    /\ DefinitionsIdle
    /\ ViewIdle

\* What ends the loop: `?` on an error returns from main, and the open
\* transaction is dropped without a commit.
Exit ==
    /\ status' = "err"
    /\ pc' = "exit"
    /\ tx' = <<>>

\* The head of an iteration: the clone of the constraint set, the new
\* transaction and the query, which returns the row b, or no row (b = 0)
\* when no block has the status to_corset.
Query(b) ==
    /\ status = "ok"
    /\ pc = "loop"
    /\ IF b = 0
       THEN \A c \in BlockIds : blocks[c].status # "to_corset"
       ELSE b \in BlockIds /\ blocks[b].status = "to_corset"
    /\ local_constraints' = main_constraints
    /\ tx' = <<>>
    /\ cur_row' = b
    /\ pc' = IF b = 0 THEN "commit" ELSE "row"
    /\ UNCHANGED <<status, blocks, main_constraints, command, remove>>
    /\ UNCHANGED <<normVars, loadVars, pureVars, defVars, viewVars>>

\* The body of the `for row` of Commands::ComputeLoop.
ComputeRow ==
    /\ status = "ok"
    /\ pc = "row"
    /\ command = "ComputeLoop"
    /\ LET v == blocks[cur_row].payload
           r == compute(v, local_constraints)
           stmt == UpdateToProver(cur_row, [v EXCEPT !.computed = TRUE])
       IN  IF ~r.ok \/ ~execute_ok(stmt)
           THEN /\ Exit
                /\ UNCHANGED local_constraints
           ELSE /\ local_constraints' = r.cs
                /\ tx' = Append(tx, stmt)
                /\ pc' = "commit"
                /\ UNCHANGED status
    /\ UNCHANGED <<blocks, main_constraints, cur_row, command, remove>>
    /\ UNCHANGED <<normVars, loadVars, pureVars, defVars, viewVars>>

\* The body of the `for row` of Commands::CheckLoop.
CheckRow ==
    /\ status = "ok"
    /\ pc = "row"
    /\ command = "CheckLoop"
    /\ LET v == blocks[cur_row].payload
           expanded == compute(v, main_constraints)
           computed == compute(v, local_constraints)
           stmt == IF check(expanded.cs)
                   THEN IF remove THEN Delete(cur_row)
                        ELSE UpdateToProver(cur_row, [v EXCEPT !.computed = TRUE])
                   ELSE UpdateFailed(cur_row)
       IN  IF ~expanded.ok
           THEN /\ Exit
                /\ UNCHANGED <<main_constraints, local_constraints>>
           ELSE /\ main_constraints' = expanded.cs
                /\ IF check(expanded.cs) /\ ~remove /\ ~computed.ok
                   THEN /\ Exit
                        /\ UNCHANGED local_constraints
                   ELSE /\ local_constraints' =
                              IF check(expanded.cs) /\ ~remove
                              THEN computed.cs ELSE local_constraints
                        /\ IF execute_ok(stmt)
                           THEN /\ tx' = Append(tx, stmt)
                                /\ pc' = "commit"
                                /\ UNCHANGED status
                           ELSE Exit
    /\ UNCHANGED <<blocks, cur_row, command, remove>>
    /\ UNCHANGED <<normVars, loadVars, pureVars, defVars, viewVars>>

\* `tx.commit()?`, then the sleep and the next iteration.
Commit ==
    /\ status = "ok"
    /\ pc = "commit"
    /\ blocks' = apply(tx, blocks)
    /\ tx' = <<>>
    /\ cur_row' = 0
    /\ pc' = "loop"
    /\ UNCHANGED <<status, main_constraints, local_constraints, command, remove>>
    /\ UNCHANGED <<normVars, loadVars, pureVars, defVars, viewVars>>

NextLoop ==
    \/ \E b \in BlockIds \cup {0} : Query(b)
    \/ ComputeRow
    \/ CheckRow
    \/ Commit

SpecLoop == InitLoop /\ [][NextLoop]_vars

\* The loop is a sequential program that keeps running: a step that can be
\* taken is taken.
SpecLoopFair == SpecLoop /\ WF_vars(NextLoop)

\* C29: in both loops every block is computed and checked on the
\* constraint set as it was compiled: at the head of an iteration, and when
\* a row is about to be processed, the constraint set of main and the clone
\* of the iteration are the compiled set.
C29_ConstraintSetStaysCompiled ==
    pc \in {"loop", "row"} =>
        /\ main_constraints = Compiled
        /\ pc = "row" => local_constraints = Compiled

\* A block b of the check loop has been picked up and its columns compute.
PickedUp(b) ==
    /\ command = "CheckLoop"
    /\ pc = "row"
    /\ cur_row = b
    /\ compute(blocks[b].payload, main_constraints).ok

\* The iteration of block b is over, its transaction is committed, and the
\* loop is at the head of its next iteration.
Settled(b) ==
    /\ pc = "loop"
    /\ status = "ok"
    /\ blocks[b].status \in {"deleted", "to_prover", "failed"}

\* C30: in the check loop every block picked up with status to_corset whose
\* columns are computed successfully ends its iteration, once the
\* transaction commits, deleted, to_prover or failed, and the loop goes on
\* to its next iteration.
C30_BlockEndsSettled ==
    \A b \in BlockIds : PickedUp(b) ~> Settled(b)

====
